---- MODULE Spec2Model ----
(***************************************************************************)
(* State-machine model of the wayland-tokio connection multiplexer of      *)
(* titaniumtraveler/ecs-compositor: the ring-buffered duplex I/O engine    *)
(* (drive_io.rs), the object registry (connection/registry.rs) and the     *)
(* recv / send / flush futures (connection/recv.rs, connection/send.rs,    *)
(* connection/ready_fut.rs).                                               *)
(*                                                                         *)
(* Scheduling model: one cooperative executor, so one poll of one future   *)
(* is one atomic step.  The Io mutex is therefore only ever found busy     *)
(* when a MsgBuf (which embeds the guard) is alive in some task.           *)
(*                                                                         *)
(* Bytes are not stored one by one.  Each direction is a byte stream; a    *)
(* ring records the physical offset of its occupied region (start, len)    *)
(* and the stream offset of its first byte (off), so the content of a      *)
(* region is the stream content at that offset.  The received stream is    *)
(* the concatenation of the frames of `wire`; the transmitted stream is    *)
(* the concatenation of the frames of `txlog`.                             *)
(***************************************************************************)
EXTENDS Integers, Sequences, FiniteSets, TLC

VARIABLES
    io,         \* Connection.drive_io: the Io engine (guarded by the Io mutex)
    ioLock,     \* holder of the Io mutex across polls: 0, or the task whose MsgBuf is alive
    reg,        \* Connection.registry: receiver_map, sender_queue, sender_locked
    sock,       \* the socket as the kernel and tokio's AsyncFd see it
    wire,       \* frames the peer has written so far, in wire order
    fut,        \* per task: the future it currently awaits
    woken,      \* tasks whose waker was called since their last poll
    msgbuf,     \* per task: the MsgBuf it holds (some = FALSE when none)
    delivered,  \* history: frames returned by recv futures, in order of return
    txlog,      \* history: frames written into the tx ring, in ring order
    completed,  \* history: send futures that returned Ready, in order of return
    nsends,     \* number of send futures created so far
    regio,      \* the last step ran an Io operation while the Registry guard was alive
    alloc,      \* history: the object ids new_object has returned (count, first, last two)
    codec,      \* a message buffer (bytes and FDs), the values written into it and read back
    chunk_iter, \* a phasesync ChunkIter and the ChunkInfo it has yielded so far
    phasesync,  \* a Phasesync: its chunks and the free_slots call of each thread
    travel_logs,    \* a travel_logs Buffer and the handles allocated from it
    message_queue,  \* a compositor MessageQueue and the calls of each thread
    subqueue        \* a compositor Subqueue and the allocate call on it

vars == << io, ioLock, reg, sock, wire, fut, woken, msgbuf, delivered, txlog,
           completed, nsends, regio, alloc, codec, chunk_iter,
           phasesync, travel_logs, message_queue, subqueue >>

-----------------------------------------------------------------------------
(* Program constants *)

WAYLAND_MAX_MESSAGE_LEN == 65536
MAX_DATA == WAYLAND_MAX_MESSAGE_LEN * 4
MAX_FDS == 252
FD_RING_LEN == 1024
HDR_LEN == 8
UINT_LEN == 4

\* Object ids are NonZeroU32.  An id v is held as v - 2^31, which keeps the order
\* and lets the whole 32-bit range be written down: Id(2) is the id 2 and
\* ID_MAX is NonZeroU32::MAX = 2^32 - 1.
ID_MAX == 2147483647
Id(v) == v - ID_MAX - 1

(* Bounds of the model *)

MaxFrames == 2      \* frames the peer writes
MaxSends == 2       \* send futures created
MixSends == 1       \* send futures created while the receive side is active (Spec)
MaxQueue == 1       \* parked wakers in sender_queue
MaxLoop == 8        \* iterations of one poll's loop before it is reported as spinning
MaxBigFrames == 5   \* frames of any size the peer writes (SpecBig)
MaxTxFrames == 2    \* frames written into the tx ring in a run of SpecTx
MaxRxTakes == 3     \* regions taken from the rx ring in a run of SpecRx
MaxObjects == 2     \* single new_object calls before and after the counter is run up

\* Two tasks, each owning one object: task 1 owns object 2, task 2 owns object 3.
Tasks == {1, 2}
Objs == {2, 3}
ObjOf(t) == t + 1

SndBuf == 16        \* bytes the kernel's send buffer takes before EWOULDBLOCK

\* The protocol schema the objects are bound to.  Object 2 has an interface whose
\* message 0 (event and request) carries one uint: 4 bytes in band, no FD.
\* Object 3 has an interface whose message 0 carries one uint and one fd: 4 bytes
\* in band, 1 FD.
PayloadLen(obj, opcode) == UINT_LEN

Min(a, b) == IF a < b THEN a ELSE b

\* `let v = x; F(v)`: x is evaluated once and F applied to its value
Once(x, F(_)) == CHOOSE r \in {F(v) : v \in {x}} : TRUE

-----------------------------------------------------------------------------
(* Frames and streams *)

\* InterfaceDir::recv_fd_count / Opcode::fd_count of the interface of obj
fd_count(obj, opcode) == IF obj = 3 THEN 1 ELSE 0

FrameLen(f) == HDR_LEN + f.len

RECURSIVE StreamLen(_, _)
StreamLen(frames, k) ==
    IF k = 0 THEN 0 ELSE StreamLen(frames, k - 1) + FrameLen(frames[k])

RECURSIVE StreamFds(_, _)
StreamFds(frames, k) ==
    IF k = 0 THEN 0 ELSE StreamFds(frames, k - 1) + frames[k].fds

\* stream offset of the first byte / first FD of frame k
FrameStart(frames, k) == StreamLen(frames, k - 1)
FrameFdStart(frames, k) == StreamFds(frames, k - 1)

\* number of FDs carried by the frames that start before stream offset p
RECURSIVE FdsBefore(_, _, _)
FdsBefore(frames, k, p) ==
    IF k = 0 THEN 0
    ELSE FdsBefore(frames, k - 1, p)
         + (IF FrameStart(frames, k) < p THEN frames[k].fds ELSE 0)

\* FDs that travel with the stream bytes [a, b): those of the frames that start
\* there (SCM_RIGHTS is attached to the first byte of the write that carried it)
FdsIn(frames, a, b) ==
    FdsBefore(frames, Len(frames), b) - FdsBefore(frames, Len(frames), a)

NoHdr == [some |-> FALSE, object_id |-> 0, datalen |-> 0, opcode |-> 0]

\* message_header::content_len: datalen.wrapping_sub(8) on u16
content_len(hdr) == (hdr.datalen - HDR_LEN) % 65536

\* message_header::read of the 8 bytes at stream offset p of the received stream.
\* Off a frame boundary the bytes are payload, not a header: the id read is 0,
\* which object::read rejects.
HeaderAt(p) ==
    LET ks == {k \in 1..Len(wire) : FrameStart(wire, k) = p}
    IN IF ks = {} THEN [some |-> TRUE, object_id |-> 0, datalen |-> 0, opcode |-> 0]
       ELSE LET k == CHOOSE k \in ks : TRUE
            IN [some |-> TRUE, object_id |-> wire[k].object_id,
                datalen |-> (FrameLen(wire[k])) % 65536, opcode |-> wire[k].opcode]

-----------------------------------------------------------------------------
(* RingBuf, BufDir and Io (drive_io.rs) *)

EmptyRing == [start |-> 0, len |-> 0, off |-> 0]
EmptyDir == [da |-> EmptyRing, fd |-> EmptyRing]

\* RingBuf::unused_end: from data.end() to buf.end()
unused_end(r, cap) == cap - (r.start + r.len)

\* RawSliceExt::split_at on the occupied region: the head moves forward by n
split_at(r, n) == [start |-> r.start + n, len |-> r.len - n, off |-> r.off + n]

\* BufDir::is_empty
is_empty(dir) == dir.da.len = 0

\* Io::new.  fault, underflow and overrun are not fields of Io: they record that
\* the engine left defined behaviour (a panic; `da.data.len() - HDR_LEN` computed
\* below zero; a recvmsg buffer that reaches beyond the rx-data allocation).
IoNew == [tx |-> EmptyDir, rx |-> EmptyDir, interest |-> {"RECV"}, rx_hdr |-> NoHdr,
          fault |-> FALSE, underflow |-> FALSE, overrun |-> FALSE]

\* Io::query_interest: "RW", "R", "W" or "none"
query_interest(i) ==
    IF {"RECV", "SEND"} \subseteq i.interest THEN "RW"
    ELSE IF "RECV" \in i.interest THEN "R"
    ELSE IF "SEND" \in i.interest THEN "W"
    ELSE "none"

\* rx_msg_buf as it would be if a failed read asked for RECV whatever the mask holds
rx_msg_buf_rearm(i, da, fd) ==
    LET cursor == i.rx
        ok == i.rx.da.len >= da /\ i.rx.fd.len >= fd
    IN IF ok
       THEN [ok |-> TRUE,
             io |-> [i EXCEPT !.rx.da = split_at(@, da), !.rx.fd = split_at(@, fd)],
             cursor |-> cursor,
             buf |-> [da_off |-> i.rx.da.off, da_len |-> da,
                      fd_off |-> i.rx.fd.off, fd_len |-> fd]]
       ELSE [ok |-> FALSE, io |-> [i EXCEPT !.interest = @ \cup {"RECV"}],
             cursor |-> cursor,
             buf |-> [da_off |-> 0, da_len |-> 0, fd_off |-> 0, fd_len |-> 0]]

\* rx_msg_buf as it would be if a failed split did not put the cursor back
rx_msg_buf_partial(i, da, fd) ==
    LET okd == i.rx.da.len >= da
        okf == i.rx.fd.len >= fd
        split == [i EXCEPT !.rx.da = IF okd THEN split_at(@, da) ELSE @,
                           !.rx.fd = IF okf THEN split_at(@, fd) ELSE @]
    IN IF okd /\ okf
       THEN [ok |-> TRUE, io |-> split, cursor |-> i.rx,
             buf |-> [da_off |-> i.rx.da.off, da_len |-> da,
                      fd_off |-> i.rx.fd.off, fd_len |-> fd]]
       ELSE [ok |-> FALSE,
             io |-> [split EXCEPT !.interest =
                                      IF "RECV_CLOSED" \in @ THEN @ ELSE @ \cup {"RECV"}],
             cursor |-> i.rx,
             buf |-> [da_off |-> 0, da_len |-> 0, fd_off |-> 0, fd_len |-> 0]]

\* rx_msg_buf as it would be if it looked at the bytes only
rx_msg_buf_bytes(i, da, fd) ==
    LET okd == i.rx.da.len >= da
        split == [i EXCEPT !.rx.da = split_at(@, da),
                           !.rx.fd = IF @.len >= fd THEN split_at(@, fd) ELSE @]
    IN IF okd
       THEN [ok |-> TRUE, io |-> split, cursor |-> i.rx,
             buf |-> [da_off |-> i.rx.da.off, da_len |-> da,
                      fd_off |-> i.rx.fd.off, fd_len |-> fd]]
       ELSE [ok |-> FALSE,
             io |-> [i EXCEPT !.interest =
                                  IF "RECV_CLOSED" \in @ THEN @ ELSE @ \cup {"RECV"}],
             cursor |-> i.rx,
             buf |-> [da_off |-> 0, da_len |-> 0, fd_off |-> 0, fd_len |-> 0]]

\* Io::rx_msg_buf((da, fd)): [ok, io, cursor, buf].  cursor is the rx cursor saved
\* before the split; buf is the detached region (stream offsets and lengths).
rx_msg_buf(i, da, fd) ==
    LET cursor == i.rx
        okd == i.rx.da.len >= da
        okf == i.rx.fd.len >= fd
        \* both split_at calls of the tuple are evaluated; each moves its head
        \* when it succeeds
        split == [i EXCEPT !.rx.da = IF okd THEN split_at(@, da) ELSE @,
                           !.rx.fd = IF okf THEN split_at(@, fd) ELSE @]
    IN IF okd /\ okf
       THEN [ok |-> TRUE, io |-> split, cursor |-> cursor,
             buf |-> [da_off |-> i.rx.da.off, da_len |-> da,
                      fd_off |-> i.rx.fd.off, fd_len |-> fd]]
       ELSE [ok |-> FALSE,
             io |-> [split EXCEPT !.interest =
                                      IF "RECV_CLOSED" \in @ THEN @ ELSE @ \cup {"RECV"},
                                  !.rx = cursor],
             cursor |-> cursor,
             buf |-> [da_off |-> 0, da_len |-> 0, fd_off |-> 0, fd_len |-> 0]]

\* BufDir::restore_cursor on rx
restore_cursor(i, cursor) == [i EXCEPT !.rx = cursor]

\* tx_msg_buf as it would be without the two `set_len` calls
tx_msg_buf_nolen(i, object_id, msg) ==
    LET data_len == HDR_LEN + msg.len
        ctrl_len == msg.fds
        i1 == [i EXCEPT !.interest =
                  IF "SEND_CLOSED" \in @ THEN @ ELSE @ \cup {"SEND"}]
    IN IF /\ unused_end(i.tx.da, MAX_DATA) >= data_len
          /\ unused_end(i.tx.fd, FD_RING_LEN) >= ctrl_len
       THEN [ok |-> TRUE, io |-> i1,
             hdr |-> [some |-> TRUE, object_id |-> object_id,
                      datalen |-> data_len % 65536, opcode |-> msg.opcode],
             buf |-> [da_off |-> i.tx.da.off + i.tx.da.len, da_len |-> data_len,
                      fd_off |-> i.tx.fd.off + i.tx.fd.len, fd_len |-> ctrl_len]]
       ELSE [ok |-> FALSE, io |-> i1, hdr |-> NoHdr,
             buf |-> [da_off |-> 0, da_len |-> 0, fd_off |-> 0, fd_len |-> 0]]

\* tx_msg_buf as it would be if each ring took its room on its own
tx_msg_buf_each(i, object_id, msg) ==
    LET data_len == HDR_LEN + msg.len
        ctrl_len == msg.fds
        okd == unused_end(i.tx.da, MAX_DATA) >= data_len
        okf == unused_end(i.tx.fd, FD_RING_LEN) >= ctrl_len
        i1 == [i EXCEPT !.interest =
                  IF "SEND_CLOSED" \in @ THEN @ ELSE @ \cup {"SEND"},
                        !.tx.da.len = IF okd THEN @ + data_len ELSE @,
                        !.tx.fd.len = IF okf THEN @ + ctrl_len ELSE @]
    IN IF okd /\ okf
       THEN [ok |-> TRUE, io |-> i1,
             hdr |-> [some |-> TRUE, object_id |-> object_id,
                      datalen |-> data_len % 65536, opcode |-> msg.opcode],
             buf |-> [da_off |-> i.tx.da.off + i.tx.da.len, da_len |-> data_len,
                      fd_off |-> i.tx.fd.off + i.tx.fd.len, fd_len |-> ctrl_len]]
       ELSE [ok |-> FALSE, io |-> i1, hdr |-> NoHdr,
             buf |-> [da_off |-> 0, da_len |-> 0, fd_off |-> 0, fd_len |-> 0]]

\* Io::tx_msg_buf(object_id, msg): [ok, io, hdr, buf].  buf is the region split
\* off unused_end (stream offsets and lengths), the header included.
tx_msg_buf(i, object_id, msg) ==
    LET data_len == HDR_LEN + msg.len
        ctrl_len == msg.fds
        i1 == [i EXCEPT !.interest =
                  IF "SEND_CLOSED" \in @ THEN @ ELSE @ \cup {"SEND"}]
    IN IF /\ unused_end(i.tx.da, MAX_DATA) >= data_len
          /\ unused_end(i.tx.fd, FD_RING_LEN) >= ctrl_len
       THEN [ok |-> TRUE,
             io |-> [i1 EXCEPT !.tx.da.len = @ + data_len, !.tx.fd.len = @ + ctrl_len],
             hdr |-> [some |-> TRUE, object_id |-> object_id,
                      datalen |-> data_len % 65536, opcode |-> msg.opcode],
             buf |-> [da_off |-> i.tx.da.off + i.tx.da.len, da_len |-> data_len,
                      fd_off |-> i.tx.fd.off + i.tx.fd.len, fd_len |-> ctrl_len]]
       ELSE [ok |-> FALSE, io |-> i1, hdr |-> NoHdr,
             buf |-> [da_off |-> 0, da_len |-> 0, fd_off |-> 0, fd_len |-> 0]]

\* Io::recv: one recvmsg.  w = [io, sock]; the result adds `again` (Ok(true)).
Io_recv(w) ==
    LET i == w.io
        da == i.rx.da
        fd == i.rx.fd
        hdr == i.rx_hdr
        stop == [io |-> [i EXCEPT !.interest = @ \ {"RECV"}], sock |-> w.sock,
                 again |-> FALSE]
    IN IF "RECV_CLOSED" \in i.interest THEN stop
       ELSE IF /\ da.len # 0
               /\ unused_end(da, MAX_DATA) < WAYLAND_MAX_MESSAGE_LEN * 2
               /\ \/ ~hdr.some /\ HDR_LEN <= da.len
                  \/ hdr.some /\ content_len(hdr) <= da.len
       THEN stop
       ELSE
         LET da1 == IF da.len = 0 THEN [da EXCEPT !.start = 0] ELSE da
             under == /\ da.len # 0
                      /\ unused_end(da, MAX_DATA) < WAYLAND_MAX_MESSAGE_LEN * 2
                      /\ ~hdr.some
             \* the length handed to recvmsg; `da.data.len() - HDR_LEN` wraps
             \* around when fewer than 8 bytes are buffered (a huge length)
             req == IF da.len = 0 THEN WAYLAND_MAX_MESSAGE_LEN * 3
                    ELSE IF unused_end(da, MAX_DATA) < WAYLAND_MAX_MESSAGE_LEN * 2
                         THEN IF hdr.some THEN content_len(hdr) - da.len
                              ELSE MAX_DATA * 1024
                    ELSE WAYLAND_MAX_MESSAGE_LEN * 3
             fd1 == IF fd.len = 0 \/ unused_end(fd, FD_RING_LEN) < 4
                    THEN [fd EXCEPT !.start = 0] ELSE fd
             ctrl_cap == Min(MAX_FDS, unused_end(fd1, FD_RING_LEN))
             a == da1.off + da1.len
             n == Min(req, w.sock.arrived - a)
             nf == Min(FdsIn(wire, a, a + n), ctrl_cap)
             \* the buffer handed to recvmsg is [data.end(), data.end() + req)
             over == da1.start + da1.len + req > MAX_DATA
             i1 == [i EXCEPT !.rx.da = da1, !.rx.fd = fd1, !.fault = @ \/ under,
                             !.underflow = @ \/ under, !.overrun = @ \/ over]
         IN IF n = 0 /\ (w.sock.eof \/ req = 0)
            THEN [io |-> [i1 EXCEPT !.interest = (@ \ {"RECV"}) \cup {"RECV_CLOSED"}],
                  sock |-> [w.sock EXCEPT !.zero_reads = @ + 1], again |-> FALSE]
            ELSE IF n = 0
            THEN [io |-> i1, sock |-> [w.sock EXCEPT !.readable = FALSE],
                  again |-> FALSE]
            ELSE [io |-> [i1 EXCEPT !.rx.da.len = @ + n, !.rx.fd.len = @ + nf],
                  sock |-> w.sock, again |-> TRUE]

\* Io::send as it would be if it took every sendmsg for a complete one
Io_send_all(w) ==
    LET i == w.io
        da == i.tx.da
        fd == i.tx.fd
    IN IF da.len = 0 \/ "SEND_CLOSED" \in i.interest
       THEN [io |-> [i EXCEPT !.interest = @ \ {"SEND"}], sock |-> w.sock,
             again |-> FALSE]
       ELSE IF w.sock.wclosed
       THEN [io |-> [i EXCEPT !.interest = (@ \ {"SEND"}) \cup {"SEND_CLOSED"}],
             sock |-> [w.sock EXCEPT !.zero_writes = @ + 1], again |-> FALSE]
       ELSE IF w.sock.room = 0
       THEN [io |-> i, sock |-> [w.sock EXCEPT !.writable = FALSE], again |-> FALSE]
       ELSE
         LET n == Min(da.len, w.sock.room)
             k == Min(fd.len, MAX_FDS)
             i1 == [i EXCEPT !.tx.da = split_at(@, da.len), !.tx.fd = split_at(@, k)]
             s1 == [w.sock EXCEPT !.room = @ - n, !.sent = @ + n, !.sent_fds = @ + k]
         IN [io |-> [i1 EXCEPT !.interest = @ \ {"SEND"}], sock |-> s1,
             again |-> FALSE]

\* Io::send: one sendmsg
Io_send(w) ==
    LET i == w.io
        da == i.tx.da
        fd == i.tx.fd
    IN IF da.len = 0 \/ "SEND_CLOSED" \in i.interest
       THEN [io |-> [i EXCEPT !.interest = @ \ {"SEND"}], sock |-> w.sock,
             again |-> FALSE]
       ELSE IF w.sock.wclosed
       THEN [io |-> [i EXCEPT !.interest = (@ \ {"SEND"}) \cup {"SEND_CLOSED"}],
             sock |-> [w.sock EXCEPT !.zero_writes = @ + 1], again |-> FALSE]
       ELSE IF w.sock.room = 0
       THEN [io |-> i, sock |-> [w.sock EXCEPT !.writable = FALSE], again |-> FALSE]
       ELSE
         LET n == Min(da.len, w.sock.room)
             k == Min(fd.len, MAX_FDS)
             i1 == [i EXCEPT !.tx.da = split_at(@, n), !.tx.fd = split_at(@, k)]
             s1 == [w.sock EXCEPT !.room = @ - n, !.sent = @ + n, !.sent_fds = @ + k]
         IN IF i1.tx.da.len = 0
            THEN [io |-> [i1 EXCEPT !.interest = @ \ {"SEND"}], sock |-> s1,
                  again |-> FALSE]
            ELSE [io |-> i1, sock |-> s1, again |-> TRUE]

\* Io::drive_io(guard): the loop over recv and send; guard = [readable, writable]
RECURSIVE drive_loop(_, _, _)
drive_loop(w, reading, writing) ==
    IF ~reading /\ ~writing THEN w
    ELSE Once(IF reading THEN Io_recv(w)
              ELSE [io |-> w.io, sock |-> w.sock, again |-> FALSE],
              LAMBDA r :
         Once(IF writing THEN Io_send([io |-> r.io, sock |-> r.sock])
              ELSE [io |-> r.io, sock |-> r.sock, again |-> FALSE],
              LAMBDA s :
         drive_loop([io |-> s.io, sock |-> s.sock], r.again, s.again)))

drive_io(w, guard) ==
    Once(w, LAMBDA v :
        drive_loop(v, "RECV" \in v.io.interest /\ guard.readable,
                      "SEND" \in v.io.interest /\ guard.writable))

-----------------------------------------------------------------------------
(* Registry (connection/registry.rs).  A waker is the id of the task it wakes. *)

RegistryNew == [receiver_map |-> [o \in Objs |-> 0], sender_queue |-> << >>,
                sender_locked |-> 0, next_id |-> Id(2)]

\* NonZeroU32::saturating_add(1)
saturating_add1(v) == IF v = ID_MAX THEN ID_MAX ELSE v + 1

\* Registry::new_object: [reg, id], the registry afterwards and the id of the
\* Object returned
new_object(r) == [reg |-> [r EXCEPT !.next_id = saturating_add1(@)], id |-> r.next_id]

\* A poll works on a context c: the shared state it may change (io, sock, reg,
\* woken, txlog, regio), its own future (fresh, iofut, did_send, saw_closed) and its
\* outcome (res, dr, woke, hdr, buf).

wake(c, t) == [c EXCEPT !.woken = @ \cup {t}]

\* Registry::register_recv: insert the entry or replace its waker
register_recv(c, obj, t) == [c EXCEPT !.reg.receiver_map[obj] = t]

\* Registry::register_send
register_send(c, t) == [c EXCEPT !.reg.sender_queue = Append(@, t)]

\* register_send_locked as it would be if it always stored into the slot
register_send_locked_overwrite(c, t) == [c EXCEPT !.reg.sender_locked = t]

\* Registry::register_send_locked
register_send_locked(c, t) ==
    IF c.reg.sender_locked = 0
    THEN [c EXCEPT !.reg.sender_locked = t]
    ELSE [c EXCEPT !.reg.sender_queue = Append(@, t)]

\* Registry::wake_sender: c.woke is the returned bool
wake_sender(c) ==
    IF c.reg.sender_locked # 0
    THEN [wake(c, c.reg.sender_locked) EXCEPT !.reg.sender_locked = 0, !.woke = TRUE]
    ELSE IF c.reg.sender_queue # << >>
    THEN [wake(c, Head(c.reg.sender_queue)) EXCEPT !.reg.sender_queue = Tail(@),
                                                   !.woke = TRUE]
    ELSE [c EXCEPT !.woke = FALSE]

\* BTreeMap::first_entry of receiver_map: the entry with the smallest object id
first_entry(r) ==
    LET present == {o \in Objs : r.receiver_map[o] # 0}
    IN IF present = {} THEN 0
       ELSE CHOOSE o \in present : \A p \in present : o <= p

\* Registry::wake_recver(cx), called from the task t
wake_recver(c, t) ==
    LET c1 == IF c.reg.sender_locked # 0
              THEN [wake(c, c.reg.sender_locked) EXCEPT !.reg.sender_locked = 0]
              ELSE c
        o == first_entry(c1.reg)
    IN IF o # 0 /\ c1.reg.receiver_map[o] # t
       THEN wake(c1, c1.reg.receiver_map[o])
       ELSE c1

-----------------------------------------------------------------------------
(* AsyncIo::poll_with_io (connection/ready_fut.rs) *)

Closed(i) == i.interest \cap {"RECV_CLOSED", "SEND_CLOSED"} # {}

\* c.iofut is AsyncIo.fut: "none", or the interest the stored readiness future
\* was created with.  c.dr is the result: "ok", "pending" or "err" (BrokenPipe).
poll_with_io(c) ==
    LET interest == IF c.iofut = "none" THEN query_interest(c.io) ELSE c.iofut
        guard == [readable |-> c.sock.readable /\ interest \in {"R", "RW"},
                  writable |-> c.sock.writable /\ interest \in {"W", "RW"}]
    IN IF interest = "none"
       THEN [c EXCEPT !.dr = IF Closed(c.io) THEN "err" ELSE "ok"]
       ELSE IF ~guard.readable /\ ~guard.writable
       THEN [c EXCEPT !.iofut = interest, !.dr = "pending"]
       ELSE Once(drive_io([io |-> c.io, sock |-> c.sock], guard), LAMBDA w :
                [c EXCEPT !.io = w.io, !.sock = w.sock, !.iofut = "none", !.dr = "ok"])

-----------------------------------------------------------------------------
(* Recv::poll (connection/recv.rs) *)

RECURSIVE recv_loop(_, _, _, _)
RECURSIVE recv_drive(_, _, _, _)

\* `ready!(self.drive_io(&mut io, cx))?; continue`
recv_drive(c, obj, t, n) ==
    Once(poll_with_io(c), LAMBDA d :
        IF d.dr = "ok" THEN recv_loop(d, obj, t, n - 1) ELSE [d EXCEPT !.res = d.dr])

\* rx_hdr is None: read and cache the next header
recv_header(c, obj, t, n) ==
    LET r == rx_msg_buf(c.io, HDR_LEN, 0)
        h == HeaderAt(r.buf.da_off)
    IN IF ~r.ok THEN recv_drive([c EXCEPT !.io = r.io], obj, t, n)
       ELSE IF h.object_id = 0
       THEN [c EXCEPT !.io = [r.io EXCEPT !.fault = TRUE], !.res = "panic"]
       ELSE recv_loop([c EXCEPT !.io = [r.io EXCEPT !.rx_hdr = h]], obj, t, n - 1)

\* recv_own as it would be without `io.rx_hdr = None`
recv_own_keep(c, obj, t, n) ==
    LET hdr == c.io.rx_hdr
        r == rx_msg_buf(c.io, content_len(hdr), fd_count(hdr.object_id, hdr.opcode))
    IN IF r.ok
       THEN [wake_recver(register_recv([c EXCEPT !.io = r.io], obj, t), t)
                EXCEPT !.res = "ready", !.hdr = hdr, !.buf = r.buf]
       ELSE recv_drive([c EXCEPT !.io = r.io], obj, t, n)

\* the cached header addresses this object: claim the body
recv_own(c, obj, t, n) ==
    LET hdr == c.io.rx_hdr
        r == rx_msg_buf(c.io, content_len(hdr), fd_count(hdr.object_id, hdr.opcode))
    IN IF r.ok
       THEN [wake_recver(register_recv([c EXCEPT !.io = [r.io EXCEPT !.rx_hdr = NoHdr]],
                                       obj, t), t)
                EXCEPT !.res = "ready", !.hdr = hdr, !.buf = r.buf]
       ELSE recv_drive([c EXCEPT !.io = r.io], obj, t, n)

\* recv_other as it would be without `io.rx.restore_cursor(cursor)`: the body of
\* the other object's frame stays consumed
recv_other_keep(c, obj, t, n) ==
    LET hdr == c.io.rx_hdr
        r == rx_msg_buf(c.io, content_len(hdr), fd_count(hdr.object_id, hdr.opcode))
        c1 == [c EXCEPT !.regio = TRUE]
    IN IF r.ok
       THEN [register_recv(wake([c1 EXCEPT !.io = r.io],
                                c.reg.receiver_map[hdr.object_id]), obj, t)
                EXCEPT !.res = "pending"]
       ELSE recv_drive([c1 EXCEPT !.io = r.io], obj, t, n)

\* the cached header addresses another object that has a receiver_map entry;
\* the Registry guard taken for the lookup lives until the end of this branch
recv_other(c, obj, t, n) ==
    LET hdr == c.io.rx_hdr
        r == rx_msg_buf(c.io, content_len(hdr), fd_count(hdr.object_id, hdr.opcode))
        c1 == [c EXCEPT !.regio = TRUE]
    IN IF r.ok
       THEN [register_recv(wake([c1 EXCEPT !.io = restore_cursor(r.io, r.cursor)],
                                c.reg.receiver_map[hdr.object_id]), obj, t)
                EXCEPT !.res = "pending"]
       ELSE recv_drive([c1 EXCEPT !.io = r.io], obj, t, n)

\* recv_unknown as it would be if the frame of an unknown ID were skipped: its
\* body, once buffered, is taken from the ring and the header forgotten
recv_unknown_skip(c, obj, t, n) ==
    LET hdr == c.io.rx_hdr
        r == rx_msg_buf(c.io, content_len(hdr), fd_count(hdr.object_id, hdr.opcode))
    IN IF r.ok
       THEN [register_recv([c EXCEPT !.io = [r.io EXCEPT !.rx_hdr = NoHdr]], obj, t)
                EXCEPT !.res = "pending"]
       ELSE [register_recv(c, obj, t) EXCEPT !.res = "pending"]

\* the cached header addresses an ID without a receiver_map entry: the poll
\* registers its object and returns Pending, the header stays cached
recv_unknown(c, obj, t, n) ==
    [register_recv(c, obj, t) EXCEPT !.res = "pending"]

recv_loop(c0, obj, t, n) ==
    Once(c0, LAMBDA c :
        IF n = 0 THEN [c EXCEPT !.res = "spin"]
        ELSE IF ~c.io.rx_hdr.some THEN recv_header(c, obj, t, n)
        ELSE IF c.io.rx_hdr.object_id = obj THEN recv_own(c, obj, t, n)
        ELSE IF c.reg.receiver_map[c.io.rx_hdr.object_id] # 0
        THEN recv_other(c, obj, t, n)
        ELSE recv_unknown(c, obj, t, n))

\* Recv::poll; locked: try_lock_io_buf returned None
recv_poll(c, obj, t, locked) ==
    IF locked THEN [register_recv(c, obj, t) EXCEPT !.res = "pending"]
    ELSE recv_loop(c, obj, t, MaxLoop)

-----------------------------------------------------------------------------
(* Send::poll and Flush::poll (connection/send.rs) *)

\* `msg.write(&mut buf.da, &mut buf.fd)` and `did_send = true`: the frame is in
\* the region tx_msg_buf returned; txlog remembers where and whose it is
written(c, r, f) ==
    [c EXCEPT !.io = r.io, !.did_send = TRUE,
              !.txlog = Append(@, [id |-> f.id, object_id |-> r.hdr.object_id,
                                   opcode |-> r.hdr.opcode, datalen |-> r.hdr.datalen,
                                   len |-> f.msg.len, fds |-> f.msg.fds,
                                   off |-> r.buf.da_off, fd_off |-> r.buf.fd_off])]

\* `if !obj.wake_sender() { lock; drive once if tx is not empty } else { wake_recver }`
send_flush(c, t, locked) ==
    Once(wake_sender(c), LAMBDA ws :
        IF ws.woke THEN [wake_recver(ws, t) EXCEPT !.res = "ready"]
        ELSE IF locked THEN [register_send_locked(ws, t) EXCEPT !.res = "pending"]
        ELSE IF is_empty(ws.io.tx) THEN [ws EXCEPT !.res = "ready"]
        ELSE Once(poll_with_io(ws), LAMBDA d :
                 [d EXCEPT !.res = IF d.dr = "ok" THEN "ready" ELSE d.dr]))

\* the `if !self.did_send` block
send_write(c, f, t, locked) ==
    IF "SEND_CLOSED" \in c.io.interest
    THEN [wake_sender([c EXCEPT !.did_send = TRUE, !.saw_closed = c.fresh])
             EXCEPT !.res = "pending"]
    ELSE Once(tx_msg_buf(c.io, f.obj, f.msg), LAMBDA r1 :
         IF r1.ok THEN send_flush(written(c, r1, f), t, locked)
         ELSE Once(poll_with_io([c EXCEPT !.io = r1.io]), LAMBDA d :
              IF d.dr # "ok" THEN [d EXCEPT !.res = d.dr]
              ELSE Once(tx_msg_buf(d.io, f.obj, f.msg), LAMBDA r2 :
                   IF r2.ok THEN send_flush(written(d, r2, f), t, locked)
                   ELSE [register_send([d EXCEPT !.io = r2.io], t)
                            EXCEPT !.res = "pending"])))

\* Send::poll
send_poll(c, f, t, locked) ==
    IF c.did_send THEN send_flush(c, t, locked)
    ELSE IF locked THEN [register_send_locked(c, t) EXCEPT !.res = "pending"]
    ELSE send_write(c, f, t, locked)

RECURSIVE flush_loop(_, _, _)
\* the loop of Flush::poll as it would be if SEND_CLOSED ended it with Ok
flush_loop_closed_ok(c, t, n) ==
    IF n = 0 THEN [c EXCEPT !.res = "spin"]
    ELSE IF is_empty(c.io.tx) \/ "SEND_CLOSED" \in c.io.interest
    THEN [c EXCEPT !.res = "ready"]
    ELSE Once(poll_with_io(c), LAMBDA d :
             IF d.dr = "ok" THEN flush_loop(d, t, n - 1) ELSE [d EXCEPT !.res = d.dr])

\* `while !io.tx.is_empty() { ... }` of Flush::poll
flush_loop(c, t, n) ==
    IF n = 0 THEN [c EXCEPT !.res = "spin"]
    ELSE IF is_empty(c.io.tx) THEN [c EXCEPT !.res = "ready"]
    ELSE IF "SEND_CLOSED" \in c.io.interest
    THEN [wake_sender(c) EXCEPT !.res = "pending"]
    ELSE Once(poll_with_io(c), LAMBDA d :
             IF d.dr = "ok" THEN flush_loop(d, t, n - 1) ELSE [d EXCEPT !.res = d.dr])

\* Flush::poll as it would be if it did not try the Io lock
flush_poll_nolock(c, t, locked) == flush_loop(c, t, MaxLoop)

\* Flush::poll
flush_poll(c, t, locked) ==
    IF locked THEN [register_send_locked(c, t) EXCEPT !.res = "pending"]
    ELSE flush_loop(c, t, MaxLoop)

-----------------------------------------------------------------------------
(* The wire codec (crates/core: primitives/inner, message.rs, raw_slice.rs).
   A 32-bit word is held as the signed reading of its bit pattern; a cursor c
   is a raw slice pair: the bytes data[pos+1..end] and the FDs fds[fpos+1..fend]. *)

\* `ptr.cast::<u32>().write(v)`: the four bytes of a word, little-endian targets
u32_to_bytes(w) ==
    LET u == IF w < 0 THEN (w + 2147483647) + 1 ELSE w
    IN << u % 256, (u \div 256) % 256, (u \div 65536) % 256,
          (u \div 16777216) + (IF w < 0 THEN 128 ELSE 0) >>

\* `ptr.cast::<u32>().read()`
u32_from_bytes(b) ==
    LET lo == b[1] + 256 * b[2] + 65536 * b[3] + 16777216 * (b[4] % 128)
    IN IF b[4] >= 128 THEN (lo - 2147483647) - 1 ELSE lo

\* the word that holds an object id (ids are kept biased, see Id)
WordOfId(b) == IF b < 0 THEN (b + ID_MAX) + 1 ELSE (b - ID_MAX) - 1

\* align::<4>
align(x) == ((x + 3) \div 4) * 4

\* `copy_from_nonoverlapping` / `write_bytes`: bytes stored at offset `at`
Put(data, at, bytes) ==
    [i \in 1..Len(data) |->
        IF i > at /\ i <= at + Len(bytes) THEN bytes[i - at] ELSE data[i]]

Zeros(n) == [i \in 1..n |-> 0]

CodecOk(c) == [ok |-> TRUE, err |-> "none", c |-> c]
CodecErr(c, e) == [ok |-> FALSE, err |-> e, c |-> c]

\* a primitive or header value; the fields a kind does not use stay as here
NoVal == [kind |-> "none", w |-> 0, some |-> TRUE, bytes |-> << >>, fd |-> 0,
          datalen |-> 0, opcode |-> 0, version |-> 0]

\* uint::write, int::write, fixed::write, write_id: split_at(4), store the word
write_u32(c, w) ==
    IF c.end - c.pos < 4 THEN CodecErr(c, "implementation")
    ELSE CodecOk([c EXCEPT !.data = Put(@, c.pos, u32_to_bytes(w)), !.pos = @ + 4])

\* uint::read, int::read, fixed::read, read_id: split_at(4), load the word
read_u32(c) ==
    IF c.end - c.pos < 4 THEN [ok |-> FALSE, err |-> "invalid_method", c |-> c, w |-> 0]
    ELSE [ok |-> TRUE, err |-> "none", c |-> [c EXCEPT !.pos = @ + 4],
          w |-> u32_from_bytes(SubSeq(c.data, c.pos + 1, c.pos + 4))]

\* inner::array::write as it would be if the length word held the padded length
array_write_padded(c, has_ptr, bytes, len) ==
    LET padded_len == align(len)
        data1 == Put(c.data, c.pos, u32_to_bytes(padded_len))
    IN IF c.end - c.pos < 4 + padded_len THEN CodecErr(c, "implementation")
       ELSE CodecOk([c EXCEPT !.data = IF has_ptr
                                        THEN Put(data1, c.pos + 4, SubSeq(bytes, 1, len))
                                        ELSE data1,
                              !.pos = @ + 4 + padded_len])

\* inner::array::write(data, ptr, len).  The content slice is split off `data`
\* with align(len) bytes; `content.split_at_unchecked(align(len))` then takes all
\* of it, and what is left of it is the padding slice.
array_write(c, has_ptr, bytes, len) ==
    LET padded_len == align(len)
        data1 == Put(c.data, c.pos, u32_to_bytes(len))
        content_at == c.pos + 4
        content_end == content_at + align(len)
        padding_at == content_end
        padding_len == (content_at + padded_len) - content_end
        data2 == Put(Put(data1, content_at, SubSeq(bytes, 1, len)),
                     padding_at, Zeros(padding_len))
    IN IF c.end - c.pos < 4 + padded_len THEN CodecErr(c, "implementation")
       ELSE CodecOk([c EXCEPT !.data = IF has_ptr THEN data2 ELSE data1,
                              !.pos = @ + 4 + padded_len])

\* inner::array::read(data): [ok, err, c, len, bytes]; on an error the slice is
\* put back to where it was
array_read(c) ==
    LET short == [ok |-> FALSE, err |-> "implementation", c |-> c, len |-> 0,
                  bytes |-> << >>]
        len == u32_from_bytes(SubSeq(c.data, c.pos + 1, c.pos + 4))
        \* align::<4>(len) in u32: the three largest lengths wrap to 0, and no
        \* buffer holds the other lengths above i32::MAX
        padded == IF len >= 0 THEN align(len) ELSE IF len >= -3 THEN 0 ELSE 2147483647
    IN IF c.end - c.pos < 4 THEN short
       ELSE IF c.end - (c.pos + 4) < padded THEN short
       ELSE [ok |-> TRUE, err |-> "none", c |-> [c EXCEPT !.pos = @ + 4 + padded],
             len |-> len, bytes |-> SubSeq(c.data, c.pos + 5, c.pos + 4 + len)]

\* str_with_nul::write (examples/apps/src/bind.rs)
str_with_nul_write(c, bytes) ==
    LET str_len == Len(bytes) + 1
        h == write_u32(c, str_len)
        padded == align(str_len)
        at == h.c.pos
    IN IF ~h.ok THEN h
       ELSE IF h.c.end - at < padded THEN CodecErr(h.c, "panic")
       ELSE CodecOk([h.c EXCEPT !.data = Put(Put(@, at, bytes), at + Len(bytes),
                                             Zeros(padded - Len(bytes))),
                                !.pos = @ + padded])

\* Value::len
Value_len(v) ==
    CASE v.kind \in {"int", "uint", "fixed", "object", "opt_object", "new_id"} -> 4
      [] v.kind = "fd" -> 0
      [] v.kind \in {"array", "string"} -> 4 + align(Len(v.bytes))
      [] v.kind = "opt_string" ->
            4 + (IF v.some THEN 4 + align(Len(v.bytes)) ELSE 0)
      [] v.kind = "message_hdr" -> 4 + 2 + 2
      [] v.kind = "new_id_dyn" -> (4 + align(Len(v.bytes))) + 4 + 4

\* message_hdr::write: the object id, then datalen << 16 | opcode
hdr_word(datalen, opcode) ==
    (IF datalen >= 32768 THEN datalen - 65536 ELSE datalen) * 65536 + opcode

\* Value::write(&self, data, fds)
Value_write(c, v) ==
    CASE v.kind \in {"int", "uint", "fixed", "object", "new_id"} -> write_u32(c, v.w)
      [] v.kind = "opt_object" -> write_u32(c, IF v.some THEN v.w ELSE 0)
      [] v.kind = "fd" ->
            IF c.fend - c.fpos < 1 THEN CodecErr(c, "implementation")
            ELSE CodecOk([c EXCEPT !.fds = [@ EXCEPT ![c.fpos + 1] = v.fd],
                                   !.fpos = @ + 1])
      [] v.kind \in {"array", "string"} -> array_write(c, TRUE, v.bytes, Len(v.bytes))
      [] v.kind = "opt_string" ->
            IF v.some THEN array_write(c, TRUE, v.bytes, Len(v.bytes))
            ELSE array_write(c, FALSE, << >>, 0)
      [] v.kind = "message_hdr" ->
            LET a == write_u32(c, v.w)
            IN IF a.ok THEN write_u32(a.c, hdr_word(v.datalen, v.opcode)) ELSE a
      [] v.kind = "new_id_dyn" ->
            LET a == array_write(c, TRUE, v.bytes, Len(v.bytes))
                b == write_u32(a.c, v.version)
            IN IF ~a.ok THEN a ELSE IF ~b.ok THEN b ELSE write_u32(b.c, v.w)

ReadErr(c, kind, e) == [ok |-> FALSE, err |-> e, c |-> c, val |-> [NoVal EXCEPT !.kind = kind]]
ReadOk(c, v) == [ok |-> TRUE, err |-> "none", c |-> c, val |-> v]

\* Value::read(data, fds) of the type `kind`
Value_read(c, kind) ==
    LET v == [NoVal EXCEPT !.kind = kind]
        r == read_u32(c)
        a == array_read(c)
    IN CASE kind \in {"int", "uint", "fixed"} ->
              IF r.ok THEN ReadOk(r.c, [v EXCEPT !.w = r.w]) ELSE ReadErr(c, kind, r.err)
         [] kind = "object" ->
              IF ~r.ok THEN ReadErr(c, kind, r.err)
              ELSE IF r.w = 0 THEN ReadErr(r.c, kind, "invalid_method")
              ELSE ReadOk(r.c, [v EXCEPT !.w = r.w])
         [] kind = "opt_object" ->
              IF ~r.ok THEN ReadErr(c, kind, r.err)
              ELSE ReadOk(r.c, [v EXCEPT !.w = r.w, !.some = r.w # 0])
         [] kind = "new_id" ->
              IF ~r.ok THEN ReadErr(c, kind, r.err)
              ELSE IF r.w = 0 THEN ReadErr(r.c, kind, "implementation")
              ELSE ReadOk(r.c, [v EXCEPT !.w = r.w])
         [] kind = "fd" ->
              IF c.fend - c.fpos < 1 THEN ReadErr(c, kind, "implementation")
              ELSE ReadOk([c EXCEPT !.fpos = @ + 1], [v EXCEPT !.fd = c.fds[c.fpos + 1]])
         [] kind = "array" ->
              IF a.ok THEN ReadOk(a.c, [v EXCEPT !.bytes = a.bytes])
              ELSE ReadErr(a.c, kind, a.err)
         [] kind = "string" ->
              IF ~a.ok THEN ReadErr(a.c, kind, a.err)
              ELSE IF a.len = 0 THEN ReadErr(a.c, kind, "invalid_method")
              ELSE ReadOk(a.c, [v EXCEPT !.bytes = a.bytes])
         [] kind = "opt_string" ->
              IF ~a.ok THEN ReadErr(a.c, kind, a.err)
              ELSE ReadOk(a.c, [v EXCEPT !.bytes = a.bytes, !.some = a.len # 0])
         [] kind = "message_hdr" ->
              LET i == read_u32(r.c)
              IN IF ~r.ok THEN ReadErr(c, kind, r.err)
                 ELSE IF r.w = 0 THEN ReadErr(r.c, kind, "invalid_method")
                 ELSE IF ~i.ok THEN ReadErr(r.c, kind, i.err)
                 ELSE ReadOk(i.c, [v EXCEPT !.w = r.w,
                                            !.datalen = (i.w \div 65536) % 65536,
                                            !.opcode = i.w % 65536])
         [] kind = "new_id_dyn" ->
              LET ver == read_u32(a.c)
                  id == read_u32(ver.c)
              IN IF ~a.ok THEN ReadErr(a.c, kind, a.err)
                 ELSE IF a.len = 0 THEN ReadErr(a.c, kind, "invalid_method")
                 ELSE IF ~ver.ok THEN ReadErr(a.c, kind, ver.err)
                 ELSE IF ~id.ok THEN ReadErr(ver.c, kind, id.err)
                 ELSE IF id.w = 0 THEN ReadErr(id.c, kind, "implementation")
                 ELSE ReadOk(id.c, [v EXCEPT !.bytes = a.bytes, !.version = ver.w,
                                             !.w = id.w])

\* ClientHandle::new_object_dyn: the new_id_dyn of a new object of the interface I
\* (NAME: the bytes of I::NAME), for the id new_object returned
new_object_dyn(I, id) ==
    [NoVal EXCEPT !.kind = "new_id_dyn", !.bytes = I.NAME, !.version = I.VERSION,
                  !.w = WordOfId(id)]

-----------------------------------------------------------------------------
(* phasesync: ChunkIter (chunk_iter.rs) and wrapping_add! (helpers.rs) *)

\* wrapping_add!(lhs + rhs; lower..upper) with the default closures
wrapping_add(lhs, rhs, lower, upper) ==
    LET diff == upper - lhs
    IN IF rhs < diff THEN lhs + rhs ELSE lower + rhs - diff

\* ChunkIter::<LEN>::new(start..=end)
ChunkIter_new(start, end, LEN) ==
    [state |-> "Start", next_chunk |-> 0, start |-> start, end |-> end, LEN |-> LEN,
     out |-> << >>]

ChunkInfo(chunk, lower, upper) == [chunk |-> chunk, lower |-> lower, upper |-> upper]

\* the state `next` moves to after a chunk that is not the chunk of `end`
AfterChunk(it, next_chunk) ==
    IF next_chunk = it.end.chunk
    THEN [it EXCEPT !.state = "Middle", !.next_chunk = next_chunk]
    ELSE [it EXCEPT !.state = "End"]

\* ChunkIter::next: [it: the iterator afterwards, some, item]
ChunkIter_next(it) ==
    CASE it.state = "Start" ->
            IF it.start.chunk = it.end.chunk
            THEN [it |-> [it EXCEPT !.state = "None"], some |-> TRUE,
                  item |-> ChunkInfo(it.start.chunk, it.start.index, it.end.index)]
            ELSE [it |-> AfterChunk(it, wrapping_add(it.start.chunk, 1, 0, it.LEN)),
                  some |-> TRUE,
                  item |-> ChunkInfo(it.start.chunk, it.start.index, 63)]
      [] it.state = "Middle" ->
            [it |-> AfterChunk(it, wrapping_add(it.next_chunk, 1, 0, it.LEN)),
             some |-> TRUE,
             item |-> ChunkInfo(it.next_chunk, 0, 63)]
      [] it.state = "End" ->
            [it |-> [it EXCEPT !.state = "None"], some |-> TRUE,
             item |-> ChunkInfo(it.end.chunk, 0, it.end.index)]
      [] it.state = "None" ->
            [it |-> it, some |-> FALSE, item |-> ChunkInfo(0, 0, 0)]

-----------------------------------------------------------------------------
(* phasesync: Phasesync::free_slots (lib.rs) and its helpers (helpers.rs).
   The value of a chunk, and a mask, is the set of the indexes of its 1 bits. *)

\* bitmask_range(lower, upper): the bits lower..=upper
bitmask_range(lower, upper) == IF upper + 1 <= lower THEN {} ELSE lower..upper

\* NonZero<u64>::leading_zeros
leading_zeros(val) == 63 - (CHOOSE i \in val : \A j \in val : j <= i)

\* lowest_one(val): None for 0, else u64::BITS - 1 - val.leading_zeros()
lowest_one(val) ==
    IF val = {} THEN [some |-> FALSE, index |-> 0]
    ELSE [some |-> TRUE, index |-> 64 - 1 - leading_zeros(val)]

\* Pos::wrapping_add::<LEN>(self, rhs)
Pos_wrapping_add(pos, rhs, LEN) ==
    LET diff == 64 - pos.index
    IN IF rhs < diff THEN [chunk |-> pos.chunk, index |-> pos.index + rhs]
       ELSE [chunk |-> wrapping_add(pos.chunk, 1, 0, LEN), index |-> rhs - diff]

\* ChunkInfo::mask
ChunkInfo_mask(info) == bitmask_range(info.lower, info.upper)

\* the closure `|val| val & (1 << index) == 1` of slow_path: `&` binds tighter
\* than `==`, so the masked value is compared with the number 1
BitIsOne(val, index) == (val \cap {index}) = {0}

-----------------------------------------------------------------------------
(* The state machine *)

NoBuf == [da_off |-> 0, da_len |-> 0, fd_off |-> 0, fd_len |-> 0]
NoMsg == [opcode |-> 0, len |-> 0, fds |-> 0]
\* fresh: not polled yet; saw_closed: its first poll found SEND_CLOSED
NoFut == [kind |-> "none", obj |-> 0, fresh |-> FALSE, iofut |-> "none",
          did_send |-> FALSE, saw_closed |-> FALSE, id |-> 0, msg |-> NoMsg]
NoMsgBuf == [some |-> FALSE, hdr |-> NoHdr, buf |-> NoBuf]

\* no object allocated yet; n counts the new_object calls up to 2 (2: two or more)
NoAlloc == [n |-> 0, first |-> 0, prev |-> 0, last |-> 0]

\* no message buffer yet.  c: the write cursor over the buffer; log: the values
\* written so far, each with the cursor offsets before and after its write;
\* rd: the last read (i: the log entry it started at)
NoRead == [i |-> 0, kind |-> "none", ok |-> FALSE, err |-> "none", val |-> NoVal,
           to |-> 0, fto |-> 0]
NoCodec == [c |-> [data |-> << >>, fds |-> << >>, pos |-> 0, fpos |-> 0,
                   end |-> 0, fend |-> 0],
            log |-> << >>, rd |-> NoRead, err |-> "none"]

\* no ChunkIter yet (state "new"; "done" once `next` has returned None);
\* out: the ChunkInfo values `next` has returned
NoIter == [state |-> "new", next_chunk |-> 0,
           start |-> [chunk |-> 0, index |-> 0], end |-> [chunk |-> 0, index |-> 0],
           LEN |-> 0, out |-> << >>]

\* a free_slots call that has not started.  pc: where the thread stands; it: the
\* ChunkIter of the current pass; info, val, mask, lower, index: the locals of the
\* closures; bits: the argument of the last lowest_one call; commits: the slots
\* `commit` was called with; pre: the chunks when the call started
NoRet == [kind |-> "none", slot |-> [chunk |-> 0, index |-> 0]]
NoCall == [pc |-> "idle",
           slots |-> [start |-> [chunk |-> 0, index |-> 0], end |-> [chunk |-> 0, index |-> 0]],
           until |-> [chunk |-> 0, index |-> 0],
           it |-> NoIter, info |-> [chunk |-> 0, lower |-> 0, upper |-> 0],
           val |-> {}, mask |-> {}, lower |-> 0, index |-> 0, bits |-> {},
           commits |-> << >>, ret |-> NoRet, pre |-> << >>]
\* no Phasesync yet (LEN = 0); chunks[c + 1] is the chunk c
NoPhasesync == [LEN |-> 0, chunks |-> << >>, th |-> [t \in Tasks |-> NoCall]]
\* Range::EMPTY and a PointRange of two empty ranges
Range_EMPTY == [from |-> 0, upto |-> 0]
NoPointRange == [slot |-> Range_EMPTY, data |-> Range_EMPTY]
\* a thread that is in no call on the Buffer
NoBufCall == [pc |-> "idle", bytes |-> 0, range |-> NoPointRange, dead |-> NoPointRange,
            free |-> [slot |-> 0, data |-> 0], then |-> "idle"]
NoBuffer == [cap |-> 0, slots |-> {}, slot_next |-> 0, slot_free |-> 0,
             data_next |-> 0, data_free |-> 0, live |-> {}, allocs |-> 0,
             th |-> [t \in Tasks |-> NoBufCall]]
\* a thread that is in no call on the MessageQueue
NoMqCall == [pc |-> "idle", data |-> 0, fds |-> 0, index |-> 0, write_next |-> 0,
             cleanup_until |-> 0]
\* Subqueue { write_next, write_until } of no capacity
NoSub == [capacity |-> 0, write_next |-> 0, write_until |-> 0]
NoMessageQueue == [capacity |-> 0, write_next |-> 0, write_until |-> 0,
                   buf |-> << >>, data |-> NoSub, fds |-> NoSub, held |-> {},
                   th |-> [t \in Tasks |-> NoMqCall]]
\* a thread that is in no call of Subqueue::allocate
NoSubCall == [pc |-> "idle", len |-> 0, write_next |-> 0, write_until |-> 0,
              new_write_next |-> 0]
NoSubqueue == [capacity |-> 0, write_next |-> 0, write_until |-> 0, live |-> << >>,
               th |-> [t \in Tasks |-> NoSubCall]]

\* a new connection on a socket whose kernel send buffer takes cap bytes
InitWith(cap) ==
    /\ io = IoNew
    /\ ioLock = 0
    /\ reg = RegistryNew
    /\ sock = [arrived |-> 0, eof |-> FALSE, cap |-> cap, room |-> cap,
               wclosed |-> FALSE, sent |-> 0, sent_fds |-> 0, readable |-> FALSE,
               writable |-> FALSE, zero_reads |-> 0, zero_writes |-> 0]
    /\ wire = << >>
    /\ fut = [t \in Tasks |-> NoFut]
    /\ woken = {}
    /\ msgbuf = [t \in Tasks |-> NoMsgBuf]
    /\ delivered = << >>
    /\ txlog = << >>
    /\ completed = << >>
    /\ nsends = 0
    /\ regio = FALSE
    /\ alloc = NoAlloc
    /\ codec = NoCodec
    /\ chunk_iter = NoIter
    /\ phasesync = NoPhasesync
    /\ travel_logs = NoBuffer
    /\ message_queue = NoMessageQueue
    /\ subqueue = NoSubqueue

Init == InitWith(SndBuf)

\* a poll that never returns keeps the only executor thread (and the Io guard)
Spinning == \E t \in Tasks : fut[t].kind = "spin"

Idle(t) == fut[t].kind = "none" /\ ~msgbuf[t].some

\* tasks whose stored readiness future waits for readable / writable
Waiting(dirs) == {t \in Tasks : fut[t].iofut \in dirs}

(* --- the peer and the kernel --- *)

PeerWrite(o) ==
    /\ Len(wire) < MaxFrames
    /\ ~sock.eof
    /\ wire' = Append(wire, [object_id |-> o, opcode |-> 0, len |-> PayloadLen(o, 0),
                            fds |-> fd_count(o, 0)])
    /\ UNCHANGED << io, ioLock, reg, sock, fut, woken, msgbuf, delivered, txlog,
                    completed, nsends >>
    /\ regio' = FALSE
    /\ UNCHANGED << alloc, codec, chunk_iter, phasesync, travel_logs, message_queue, subqueue >>

\* bytes reach the socket in pieces: up to the end of a header or of a frame
CutPoints ==
    UNION {{FrameStart(wire, k) + HDR_LEN,
            FrameStart(wire, k) + FrameLen(wire[k])} : k \in 1..Len(wire)}

Arrive(p) ==
    /\ p \in CutPoints
    /\ p > sock.arrived
    /\ sock' = [sock EXCEPT !.arrived = p, !.readable = TRUE]
    /\ woken' = woken \cup Waiting({"R", "RW"})
    /\ UNCHANGED << io, ioLock, reg, wire, fut, msgbuf, delivered, txlog, completed,
                    nsends >>
    /\ regio' = FALSE
    /\ UNCHANGED << alloc, codec, chunk_iter, phasesync, travel_logs, message_queue, subqueue >>

\* the peer shuts its sending side down: recvmsg returns 0 once all is read
CloseRecv ==
    /\ ~sock.eof
    /\ sock.arrived = StreamLen(wire, Len(wire))
    /\ sock' = [sock EXCEPT !.eof = TRUE, !.readable = TRUE]
    /\ woken' = woken \cup Waiting({"R", "RW"})
    /\ UNCHANGED << io, ioLock, reg, wire, fut, msgbuf, delivered, txlog, completed,
                    nsends >>
    /\ regio' = FALSE
    /\ UNCHANGED << alloc, codec, chunk_iter, phasesync, travel_logs, message_queue, subqueue >>

\* sendmsg returns 0 from now on
CloseSend ==
    /\ ~sock.wclosed
    /\ sock' = [sock EXCEPT !.wclosed = TRUE, !.writable = TRUE]
    /\ woken' = woken \cup Waiting({"W", "RW"})
    /\ UNCHANGED << io, ioLock, reg, wire, fut, msgbuf, delivered, txlog, completed,
                    nsends >>
    /\ regio' = FALSE
    /\ UNCHANGED << alloc, codec, chunk_iter, phasesync, travel_logs, message_queue, subqueue >>

\* the reactor delivers the first readiness event of the registered socket: it
\* is writable (the cached readiness of a new AsyncFd is empty until then)
FirstReady ==
    /\ ~sock.writable
    /\ sock.room = sock.cap
    /\ sock.sent = 0
    /\ sock' = [sock EXCEPT !.writable = TRUE]
    /\ woken' = woken \cup Waiting({"W", "RW"})
    /\ UNCHANGED << io, ioLock, reg, wire, fut, msgbuf, delivered, txlog, completed,
                    nsends >>
    /\ regio' = FALSE
    /\ UNCHANGED << alloc, codec, chunk_iter, phasesync, travel_logs, message_queue, subqueue >>

\* the peer reads what the kernel buffered: the socket is writable again
PeerDrain ==
    /\ sock.room < sock.cap
    /\ sock' = [sock EXCEPT !.room = sock.cap, !.writable = TRUE]
    /\ woken' = woken \cup Waiting({"W", "RW"})
    /\ UNCHANGED << io, ioLock, reg, wire, fut, msgbuf, delivered, txlog, completed,
                    nsends >>
    /\ regio' = FALSE
    /\ UNCHANGED << alloc, codec, chunk_iter, phasesync, travel_logs, message_queue, subqueue >>

(* --- the tasks --- *)

\* Object::recv: create the future; its task is scheduled for the first poll
StartRecv(t) ==
    /\ ~Spinning /\ Idle(t)
    /\ fut' = [fut EXCEPT ![t] = [NoFut EXCEPT !.kind = "recv", !.obj = ObjOf(t),
                                             !.fresh = TRUE]]
    /\ woken' = woken \cup {t}
    /\ UNCHANGED << io, ioLock, reg, sock, wire, msgbuf, delivered, txlog, completed,
                    nsends >>
    /\ regio' = FALSE
    /\ UNCHANGED << alloc, codec, chunk_iter, phasesync, travel_logs, message_queue, subqueue >>

\* Object::send on object o from task t
StartSend(t, o) ==
    /\ ~Spinning /\ Idle(t)
    /\ nsends < MaxSends
    /\ nsends' = nsends + 1
    /\ fut' = [fut EXCEPT ![t] =
                  [NoFut EXCEPT !.kind = "send", !.obj = o, !.id = nsends + 1,
                                !.fresh = TRUE,
                                !.msg = [opcode |-> 0, len |-> PayloadLen(o, 0),
                                         fds |-> fd_count(o, 0)]]]
    /\ woken' = woken \cup {t}
    /\ UNCHANGED << io, ioLock, reg, sock, wire, msgbuf, delivered, txlog, completed >>
    /\ regio' = FALSE
    /\ UNCHANGED << alloc, codec, chunk_iter, phasesync, travel_logs, message_queue, subqueue >>

\* Connection::flush
StartFlush(t) ==
    /\ ~Spinning /\ Idle(t)
    /\ fut' = [fut EXCEPT ![t] = [NoFut EXCEPT !.kind = "flush", !.fresh = TRUE]]
    /\ woken' = woken \cup {t}
    /\ UNCHANGED << io, ioLock, reg, sock, wire, msgbuf, delivered, txlog, completed,
                    nsends >>
    /\ regio' = FALSE
    /\ UNCHANGED << alloc, codec, chunk_iter, phasesync, travel_logs, message_queue, subqueue >>

\* the context a poll of task t starts from
Ctx(t) ==
    [io |-> io, sock |-> sock, reg |-> reg, woken |-> woken \ {t}, txlog |-> txlog,
     regio |-> FALSE, iofut |-> fut[t].iofut, did_send |-> fut[t].did_send,
     saw_closed |-> fut[t].saw_closed, fresh |-> fut[t].fresh,
     res |-> "none", dr |-> "none",
     woke |-> FALSE, hdr |-> NoHdr, buf |-> NoBuf]

PollResult(t) ==
    LET f == fut[t]
        locked == ioLock # 0
    IN IF f.kind = "recv" THEN recv_poll(Ctx(t), f.obj, t, locked)
       ELSE IF f.kind = "send" THEN send_poll(Ctx(t), f, t, locked)
       ELSE flush_poll(Ctx(t), t, locked)

\* one poll of the future of task t, and what its result does to the task
DoPoll(t) ==
    \E c \in {PollResult(t)} :
    LET f == fut[t]
        got == f.kind = "recv" /\ c.res = "ready"
        done == c.res \in {"ready", "err", "panic"}
        f1 == IF done THEN NoFut
              ELSE IF c.res = "spin" THEN [f EXCEPT !.kind = "spin"]
              ELSE [f EXCEPT !.fresh = FALSE, !.iofut = c.iofut, !.did_send = c.did_send,
                             !.saw_closed = c.saw_closed]
    IN /\ Len(c.reg.sender_queue) <= MaxQueue
       /\ io' = c.io
       /\ sock' = c.sock
       /\ reg' = c.reg
       /\ txlog' = c.txlog
       /\ regio' = c.regio
       /\ fut' = [fut EXCEPT ![t] = f1]
       /\ woken' = {u \in c.woken : IF u = t THEN f1.kind # "none"
                                               ELSE fut[u].kind # "none"}
       /\ msgbuf' = IF got THEN [msgbuf EXCEPT ![t] = [some |-> TRUE, hdr |-> c.hdr,
                                                         buf |-> c.buf]]
                    ELSE msgbuf
       /\ ioLock' = IF got \/ c.res = "spin" THEN t ELSE ioLock
       /\ delivered' = IF got THEN Append(delivered, [task |-> t, obj |-> f.obj,
                                                      hdr |-> c.hdr, buf |-> c.buf])
                       ELSE delivered
       /\ completed' = IF f.kind = "send" /\ done
                       THEN Append(completed, [id |-> f.id, obj |-> f.obj,
                                               ok |-> c.res = "ready",
                                               did_send |-> c.did_send,
                                               saw_closed |-> c.saw_closed])
                       ELSE completed
       /\ UNCHANGED << wire, nsends, alloc, codec, chunk_iter, phasesync, travel_logs, message_queue, subqueue >>

\* the executor polls a task whose waker was called
Poll(t) ==
    /\ ~Spinning
    /\ fut[t].kind \in {"recv", "send", "flush"}
    /\ t \in woken
    /\ DoPoll(t)

\* a poll without a wake-up (the task was woken for another of its futures)
SpuriousPoll(t) ==
    /\ ~Spinning
    /\ fut[t].kind \in {"recv", "send", "flush"}
    /\ t \notin woken
    /\ DoPoll(t)

\* the task drops its pending future
DropFuture(t) ==
    /\ ~Spinning
    /\ fut[t].kind \in {"recv", "send", "flush"}
    /\ fut' = [fut EXCEPT ![t] = NoFut]
    /\ woken' = woken \ {t}
    /\ UNCHANGED << io, ioLock, reg, sock, wire, msgbuf, delivered, txlog, completed,
                    nsends >>
    /\ regio' = FALSE
    /\ UNCHANGED << alloc, codec, chunk_iter, phasesync, travel_logs, message_queue, subqueue >>

\* the task drops the MsgBuf it got from recv: the Io guard in it is released
DropMsgBuf(t) ==
    /\ msgbuf[t].some
    /\ msgbuf' = [msgbuf EXCEPT ![t] = NoMsgBuf]
    /\ ioLock' = 0
    /\ UNCHANGED << io, reg, sock, wire, fut, woken, delivered, txlog, completed,
                    nsends >>
    /\ regio' = FALSE
    /\ UNCHANGED << alloc, codec, chunk_iter, phasesync, travel_logs, message_queue, subqueue >>

(* --- the Io layer alone, driven with frames of any size --- *)

\* the largest frame: datalen is a u16 and frames are whole 32-bit words
MaxFrameLen == WAYLAND_MAX_MESSAGE_LEN - 4
\* payload lengths of the frames of SpecBig: one word, and the largest
BigLens == {UINT_LEN, MaxFrameLen - HDR_LEN}
BigMsgs == {[opcode |-> 0, len |-> MaxFrameLen - HDR_LEN, fds |-> 0],
            [opcode |-> 0, len |-> WAYLAND_MAX_MESSAGE_LEN \div 2 - HDR_LEN, fds |-> 1]}

\* Io::tx_msg_buf followed by Message::write, as Send::poll calls them
IoTxWrite(m) ==
    LET r == tx_msg_buf(io, 2, m)
    IN /\ io' = r.io
       /\ txlog' = IF r.ok
                   THEN Append(txlog, [id |-> 0, object_id |-> r.hdr.object_id,
                                       opcode |-> r.hdr.opcode, datalen |-> r.hdr.datalen,
                                       len |-> m.len, fds |-> m.fds,
                                       off |-> r.buf.da_off, fd_off |-> r.buf.fd_off])
                   ELSE txlog
       /\ UNCHANGED << ioLock, reg, sock, wire, fut, woken, msgbuf, delivered,
                       completed, nsends >>
       /\ regio' = FALSE
       /\ UNCHANGED << alloc, codec, chunk_iter, phasesync, travel_logs, message_queue, subqueue >>
    /\ UNCHANGED << alloc, codec, chunk_iter, phasesync, travel_logs, message_queue, subqueue >>

\* Io::drive_io with a writable guard
IoDrive ==
    \E w \in {drive_io([io |-> io, sock |-> sock],
                       [readable |-> FALSE, writable |-> TRUE])} :
       /\ sock.writable
       /\ io' = w.io
       /\ sock' = w.sock
       /\ UNCHANGED << ioLock, reg, wire, fut, woken, msgbuf, delivered, txlog,
                       completed, nsends >>
       /\ regio' = FALSE
       /\ UNCHANGED << alloc, codec, chunk_iter, phasesync, travel_logs, message_queue, subqueue >>
    /\ UNCHANGED << alloc, codec, chunk_iter, phasesync, travel_logs, message_queue, subqueue >>

NextIo ==
    \/ FirstReady
    \/ PeerDrain
    \/ \E m \in BigMsgs : IoTxWrite(m)
    \/ IoDrive

\* the kernel takes a whole ring at once
SpecIo == InitWith(MAX_DATA) /\ [][NextIo]_vars

\* receive side only: the peer writes, the tasks receive
NextRecv ==
    \/ \E o \in Objs : PeerWrite(o)
    \/ \E p \in CutPoints : Arrive(p)
    \/ CloseRecv
    \/ \E t \in Tasks : StartRecv(t)
    \/ \E t \in Tasks : Poll(t)
    \/ \E t \in Tasks : SpuriousPoll(t)
    \/ \E t \in Tasks : DropFuture(t)
    \/ \E t \in Tasks : DropMsgBuf(t)

SpecRecv == Init /\ [][NextRecv]_vars

\* one event per object: the peer sends one frame to each object, each task
\* awaits one recv, and the executor polls only tasks that were woken
NextOnce ==
    \/ \E o \in Objs : (\A k \in 1..Len(wire) : wire[k].object_id # o) /\ PeerWrite(o)
    \/ \E p \in CutPoints : Arrive(p)
    \/ \E t \in Tasks : (\A k \in 1..Len(delivered) : delivered[k].task # t)
                          /\ StartRecv(t)
    \/ \E t \in Tasks : Poll(t)
    \/ \E t \in Tasks : DropMsgBuf(t)

SpecOnce == Init /\ [][NextOnce]_vars

\* send side only: the tasks send on one object and flush, the peer drains or closes
NextSend ==
    \/ CloseRecv
    \/ CloseSend
    \/ FirstReady
    \/ PeerDrain
    \/ \E t \in Tasks : StartSend(t, 3)
    \/ \E t \in Tasks : StartFlush(t)
    \/ \E t \in Tasks : Poll(t)
    \/ \E t \in Tasks : SpuriousPoll(t)
    \/ \E t \in Tasks : DropFuture(t)

SpecSend == Init /\ [][NextSend]_vars

\* both directions on an open connection: task 1 receives for its object while task 2 sends and flushes
Next ==
    \/ \E o \in Objs : PeerWrite(o)
    \/ \E p \in CutPoints : Arrive(p)
    \/ FirstReady
    \/ PeerDrain
    \/ StartRecv(1)
    \/ nsends < MixSends /\ StartSend(2, 3)
    \/ StartFlush(2)
    \/ \E t \in Tasks : Poll(t)
    \/ \E t \in Tasks : SpuriousPoll(t)
    \/ \E t \in Tasks : DropFuture(t)
    \/ \E t \in Tasks : DropMsgBuf(t)

Spec == Init /\ [][Next]_vars

\* the peer writes, the bytes arrive and the peer closes; the tasks receive, and
\* the executor polls only tasks that were woken
NextClosed ==
    \/ \E o \in Objs : PeerWrite(o)
    \/ \E p \in CutPoints : Arrive(p)
    \/ CloseRecv
    \/ \E t \in Tasks : StartRecv(t)
    \/ \E t \in Tasks : Poll(t)
    \/ \E t \in Tasks : DropMsgBuf(t)

SpecClosed == Init /\ [][NextClosed]_vars

\* both objects await an event: each task has a recv future that was polled and
\* is pending
BothAwait == \A t \in Tasks : fut[t].kind = "recv" /\ ~fut[t].fresh

\* multiplexed receive: the peer writes a frame for object 3 and then one for
\* object 2, and the two frames reach the socket together while both objects
\* await an event
NextMux ==
    \/ wire = << >> /\ PeerWrite(3)
    \/ Len(wire) = 1 /\ PeerWrite(2)
    \/ Len(wire) = 2 /\ BothAwait /\ Arrive(StreamLen(wire, 2))
    \/ \E t \in Tasks : StartRecv(t)
    \/ \E t \in Tasks : Poll(t)
    \/ \E t \in Tasks : SpuriousPoll(t)
    \/ \E t \in Tasks : DropMsgBuf(t)
    \/ FirstReady

SpecMux == Init /\ [][NextMux]_vars

(* --- the tx ring at any fill --- *)

\* one word, with and without an FD; the largest frames; and a message whose
\* array argument makes the frame longer than a u16 can say
TxMsgs ==
    {[opcode |-> 0, len |-> UINT_LEN, fds |-> 0],
     [opcode |-> 0, len |-> UINT_LEN, fds |-> 1],
     [opcode |-> 0, len |-> WAYLAND_MAX_MESSAGE_LEN, fds |-> 0]} \cup BigMsgs

\* where the tails of the tx rings may stand after earlier traffic that has gone
\* out completely (the tx rings are never rewound)
TxDataTails == {0, FD_RING_LEN * HDR_LEN, MAX_DATA - WAYLAND_MAX_MESSAGE_LEN,
                MAX_DATA - 16, MAX_DATA - 8}
TxFdTails == {0, FD_RING_LEN - 1, FD_RING_LEN}

\* a connection that has written and flushed d bytes and f FDs
InitTx ==
    \E d \in TxDataTails, f \in TxFdTails :
        /\ f * HDR_LEN <= d
        /\ io = [IoNew EXCEPT !.tx = [da |-> [start |-> d, len |-> 0, off |-> d],
                                      fd |-> [start |-> f, len |-> 0, off |-> f]]]
        /\ ioLock = 0
        /\ reg = RegistryNew
        /\ sock = [arrived |-> 0, eof |-> FALSE, cap |-> MAX_DATA, room |-> MAX_DATA,
                   wclosed |-> FALSE, sent |-> d, sent_fds |-> f, readable |-> FALSE,
                   writable |-> TRUE,
                   zero_reads |-> 0, zero_writes |-> 0]
        /\ wire = << >>
        /\ fut = [t \in Tasks |-> NoFut]
        /\ woken = {}
        /\ msgbuf = [t \in Tasks |-> NoMsgBuf]
        /\ delivered = << >>
        /\ txlog = << >>
        /\ completed = << >>
        /\ nsends = 0
        /\ regio = FALSE
        /\ alloc = NoAlloc
        /\ codec = NoCodec
        /\ chunk_iter = NoIter
        /\ phasesync = NoPhasesync
        /\ travel_logs = NoBuffer
        /\ message_queue = NoMessageQueue
        /\ subqueue = NoSubqueue

NextTx ==
    \/ \E m \in TxMsgs : Len(txlog) < MaxTxFrames /\ IoTxWrite(m)
    \/ IoDrive
    \/ PeerDrain

SpecTx == InitTx /\ [][NextTx]_vars

(* --- sends and flushes on a connection whose tx ring is nearly used up --- *)

\* where the tail of the tx data ring stands: room for two frames of one word,
\* for one, for none
FullDataTails == {MAX_DATA - 24, MAX_DATA - 16, MAX_DATA - 8}
\* what the tx ring still holds: nothing, or two frames of one word
FullDataLens == {0, 2 * (HDR_LEN + UINT_LEN)}

\* a connection that has written d bytes and flushed all but n of them, on a
\* socket whose kernel send buffer takes SndBuf bytes
InitFull ==
    \E d \in FullDataTails, n \in FullDataLens :
        /\ io = [IoNew EXCEPT !.tx.da = [start |-> d - n, len |-> n, off |-> d - n],
                              !.interest = IF n > 0 THEN {"RECV", "SEND"} ELSE {"RECV"}]
        /\ ioLock = 0
        /\ reg = RegistryNew
        /\ sock = [arrived |-> 0, eof |-> FALSE, cap |-> SndBuf, room |-> SndBuf,
                   wclosed |-> FALSE, sent |-> d - n, sent_fds |-> 0,
                   readable |-> FALSE, writable |-> TRUE, zero_reads |-> 0,
                   zero_writes |-> 0]
        /\ wire = << >>
        /\ fut = [t \in Tasks |-> NoFut]
        /\ woken = {}
        /\ msgbuf = [t \in Tasks |-> NoMsgBuf]
        /\ delivered = << >>
        /\ txlog = << >>
        /\ completed = << >>
        /\ nsends = 0
        /\ regio = FALSE
        /\ alloc = NoAlloc
        /\ codec = NoCodec
        /\ chunk_iter = NoIter
        /\ phasesync = NoPhasesync
        /\ travel_logs = NoBuffer
        /\ message_queue = NoMessageQueue
        /\ subqueue = NoSubqueue

\* tasks send on object 3 and flush, the peer drains
NextFull ==
    \/ PeerDrain
    \/ \E t \in Tasks : StartSend(t, 3)
    \/ \E t \in Tasks : StartFlush(t)
    \/ \E t \in Tasks : Poll(t)
    \/ \E t \in Tasks : DropFuture(t)

SpecFull == InitFull /\ [][NextFull]_vars

(* --- rx_msg_buf on a ring at any fill --- *)

\* what the ring may hold when the peer's frames carry one word and their FDs
\* come with them, late or not at all: a number of bytes and a number of FDs
RxDataLens == {8, 12, 16, 20, 24, 28}
RxFdLens == {0, 1, 2}
\* the (len, fds) asked for: a header, a body of one word without and with an FD,
\* and a body of three words with two FDs
RxTakes == {<< HDR_LEN, 0 >>, << UINT_LEN, 0 >>, << UINT_LEN, 1 >>,
            << 3 * UINT_LEN, 2 >>}

\* Io::recv has filled the empty ring with one recvmsg of three maximum frames
\* and stopped reading (less than two maximum frames are free); the frames were
\* taken out up to the last n bytes and k FDs
InitRx ==
    \E n \in RxDataLens, k \in RxFdLens :
        /\ io = [IoNew EXCEPT !.rx = [da |-> [start |-> 3 * WAYLAND_MAX_MESSAGE_LEN - n,
                                              len |-> n,
                                              off |-> 3 * WAYLAND_MAX_MESSAGE_LEN - n],
                                      fd |-> [start |-> 0, len |-> k, off |-> 0]],
                              !.interest = {}]
        /\ ioLock = 0
        /\ reg = RegistryNew
        /\ sock = [arrived |-> 3 * WAYLAND_MAX_MESSAGE_LEN, eof |-> FALSE,
                   cap |-> SndBuf, room |-> SndBuf, wclosed |-> FALSE, sent |-> 0,
                   sent_fds |-> 0, readable |-> TRUE, writable |-> FALSE,
                   zero_reads |-> 0, zero_writes |-> 0]
        /\ wire = << >>
        /\ fut = [t \in Tasks |-> NoFut]
        /\ woken = {}
        /\ msgbuf = [t \in Tasks |-> NoMsgBuf]
        /\ delivered = << >>
        /\ txlog = << >>
        /\ completed = << >>
        /\ nsends = 0
        /\ regio = FALSE
        /\ alloc = NoAlloc
        /\ codec = NoCodec
        /\ chunk_iter = NoIter
        /\ phasesync = NoPhasesync
        /\ travel_logs = NoBuffer
        /\ message_queue = NoMessageQueue
        /\ subqueue = NoSubqueue

\* Io::rx_msg_buf((da, fd)) as Recv::poll calls it; a region it returns is noted
\* in `delivered`
IoRxMsgBuf(da, fd) ==
    LET r == rx_msg_buf(io, da, fd)
    IN /\ Len(delivered) < MaxRxTakes
       /\ io' = r.io
       /\ delivered' = IF r.ok
                       THEN Append(delivered, [task |-> 0, obj |-> 0, hdr |-> NoHdr,
                                               buf |-> r.buf])
                       ELSE delivered
       /\ UNCHANGED << ioLock, reg, sock, wire, fut, woken, msgbuf, txlog, completed,
                       nsends >>
       /\ regio' = FALSE
       /\ UNCHANGED << alloc, codec, chunk_iter, phasesync, travel_logs, message_queue, subqueue >>

NextRx == \E a \in RxTakes : IoRxMsgBuf(a[1], a[2])

SpecRx == InitRx /\ [][NextRx]_vars

(* --- the Io engine on a connection that the peer closes --- *)

\* the message written and the reads tried: a header, and a body of one word
\* with one descriptor
IntMsgs == {[opcode |-> 0, len |-> UINT_LEN, fds |-> 1]}
IntTakes == {<< HDR_LEN, 0 >>, << UINT_LEN, 1 >>}

\* Io::drive_io with the readiness guard AsyncIo::poll_with_io hands it: the
\* socket's readiness for the directions of query_interest
IoPollDrive ==
    LET interest == query_interest(io)
        guard == [readable |-> sock.readable /\ interest \in {"R", "RW"},
                  writable |-> sock.writable /\ interest \in {"W", "RW"}]
    IN \E w \in {drive_io([io |-> io, sock |-> sock], guard)} :
          /\ guard.readable \/ guard.writable
          /\ io' = w.io
          /\ sock' = w.sock
          /\ UNCHANGED << ioLock, reg, wire, fut, woken, msgbuf, delivered, txlog,
                          completed, nsends, alloc, codec, chunk_iter, phasesync, travel_logs, message_queue, subqueue >>
          /\ regio' = FALSE

NextInt ==
    \/ PeerWrite(3)
    \/ \E p \in CutPoints : Arrive(p)
    \/ CloseRecv
    \/ CloseSend
    \/ FirstReady
    \/ PeerDrain
    \/ \E m \in IntMsgs : Len(txlog) < MaxTxFrames /\ IoTxWrite(m)
    \/ \E a \in IntTakes : IoRxMsgBuf(a[1], a[2])
    \/ IoPollDrive

SpecInt == Init /\ [][NextInt]_vars

(* --- frames of any size --- *)

\* the peer writes a frame of opcode 1 of object 2, an event with one array
\* argument: `len` payload bytes, no FD
PeerWriteBig(len) ==
    /\ Len(wire) < MaxBigFrames
    /\ ~sock.eof
    /\ wire' = Append(wire, [object_id |-> 2, opcode |-> 1, len |-> len, fds |-> 0])
    /\ UNCHANGED << io, ioLock, reg, sock, fut, woken, msgbuf, delivered, txlog,
                    completed, nsends >>
    /\ regio' = FALSE
    /\ UNCHANGED << alloc, codec, chunk_iter, phasesync, travel_logs, message_queue, subqueue >>

\* a stream socket cuts where it likes: also inside a header and inside a body
PartCuts ==
    UNION {{FrameStart(wire, k) + UINT_LEN,
            FrameStart(wire, k) + HDR_LEN,
            FrameStart(wire, k) + HDR_LEN + UINT_LEN,
            FrameStart(wire, k) + FrameLen(wire[k])} : k \in 1..Len(wire)}

ArrivePart(p) ==
    /\ p \in PartCuts
    /\ p > sock.arrived
    /\ sock' = [sock EXCEPT !.arrived = p, !.readable = TRUE]
    /\ woken' = woken \cup Waiting({"R", "RW"})
    /\ UNCHANGED << io, ioLock, reg, wire, fut, msgbuf, delivered, txlog, completed,
                    nsends >>
    /\ regio' = FALSE
    /\ UNCHANGED << alloc, codec, chunk_iter, phasesync, travel_logs, message_queue, subqueue >>

\* the engine is still within defined behaviour: no panic, no length below zero,
\* and recvmsg has not written behind the end of the rx-data allocation (a buffer
\* that reaches beyond it does no harm as long as fewer bytes come in)
Defined ==
    /\ ~io.fault /\ ~io.underflow
    /\ io.rx.da.start + io.rx.da.len <= MAX_DATA

\* task 1 receives the events of object 2, small and of the maximum size
NextBig ==
    \/ Defined /\ \E len \in BigLens : PeerWriteBig(len)
    \/ Defined /\ \E p \in PartCuts : ArrivePart(p)
    \/ Defined /\ StartRecv(1)
    \/ Defined /\ Poll(1)
    \/ Defined /\ DropMsgBuf(1)

SpecBig == Init /\ [][NextBig]_vars

(* --- object allocation --- *)

Allocated(a, id) ==
    [n |-> Min(a.n + 1, 2), first |-> IF a.n = 0 THEN id ELSE a.first,
     prev |-> a.last, last |-> id]

\* ClientHandle::new_object / new_object_dyn: one call of Registry::new_object
NewObject ==
    /\ \/ reg.next_id < Id(2 + MaxObjects)
       \/ reg.next_id > ID_MAX - MaxObjects
    /\ LET r == new_object(reg)
       IN /\ reg' = r.reg
          /\ alloc' = Allocated(alloc, r.id)
    /\ UNCHANGED << io, ioLock, sock, wire, fut, woken, msgbuf, delivered, txlog,
                    completed, nsends, codec, chunk_iter, phasesync, travel_logs, message_queue, subqueue >>
    /\ regio' = FALSE

\* new_object is called again and again until the counter stands at `target`:
\* every call returns the counter and adds one to it
NewObjectsUpTo(target) ==
    /\ reg.next_id < target - 2
    /\ reg' = [reg EXCEPT !.next_id = target]
    /\ alloc' = [n |-> 2, first |-> IF alloc.n = 0 THEN reg.next_id ELSE alloc.first,
                 prev |-> target - 2, last |-> target - 1]
    /\ UNCHANGED << io, ioLock, sock, wire, fut, woken, msgbuf, delivered, txlog,
                    completed, nsends, codec, chunk_iter, phasesync, travel_logs, message_queue, subqueue >>
    /\ regio' = FALSE

\* objects are allocated while the peer writes
NextAlloc ==
    \/ NewObject
    \/ NewObjectsUpTo(ID_MAX - 1)
    \/ \E o \in Objs : PeerWrite(o)
    \/ \E p \in CutPoints : Arrive(p)

SpecAlloc == Init /\ [][NextAlloc]_vars

\* Connection::flush called by a task that still holds the MsgBuf of its last recv
StartFlushHolding(t) ==
    /\ ~Spinning
    /\ msgbuf[t].some
    /\ fut[t].kind = "none"
    /\ fut' = [fut EXCEPT ![t] = [NoFut EXCEPT !.kind = "flush", !.fresh = TRUE]]
    /\ woken' = woken \cup {t}
    /\ UNCHANGED << io, ioLock, reg, sock, wire, msgbuf, delivered, txlog, completed,
                    nsends >>
    /\ regio' = FALSE
    /\ UNCHANGED << alloc, codec, chunk_iter, phasesync, travel_logs, message_queue, subqueue >>

\* a receiver that keeps its messages: task 1 receives for its object and may
\* flush while it holds a MsgBuf, task 2 sends
NextHold ==
    \/ PeerWrite(2)
    \/ \E p \in CutPoints : Arrive(p)
    \/ FirstReady
    \/ StartRecv(1)
    \/ nsends < MixSends /\ StartSend(2, 3)
    \/ StartFlushHolding(1)
    \/ \E t \in Tasks : Poll(t)
    \/ \E t \in Tasks : SpuriousPoll(t)
    \/ \E t \in Tasks : DropMsgBuf(t)

SpecHold == Init /\ [][NextHold]_vars

-----------------------------------------------------------------------------
(* Values written into a message buffer and read back *)

\* the buffer is BufLen bytes and FdLen FDs long and takes up to MaxValues values
BufLen == 24
FdLen == 2
MaxValues == 2

\* what the buffer holds before the writes: zeroes, or bytes of an earlier use
FillBytes == {0, 170}

\* "hi" and "wl_" with their terminating NUL
Strings == {<< 104, 105, 0 >>, << 119, 108, 95, 0 >>}
Arrays == {<< >>, << 1, 2, 3, 4, 5 >>}

\* interfaces with names of 7, 8 and 9 bytes: wl_seat, wl_touch, wl_output
Interfaces ==
    {[NAME |-> << 119, 108, 95, 115, 101, 97, 116 >>, VERSION |-> 9],
     [NAME |-> << 119, 108, 95, 116, 111, 117, 99, 104 >>, VERSION |-> 10],
     [NAME |-> << 119, 108, 95, 111, 117, 116, 112, 117, 116 >>, VERSION |-> 4]}

\* values of every primitive type and headers, among them the words 0,
\* 0x12345678, 0x80000000 and 0xffffffff
CodecValues ==
    {[NoVal EXCEPT !.kind = "int", !.w = w] : w \in {-2147483647 - 1, -1}}
    \cup {[NoVal EXCEPT !.kind = "uint", !.w = w] : w \in {0, -1}}
    \cup {[NoVal EXCEPT !.kind = "fixed", !.w = 305419896]}
    \cup {[NoVal EXCEPT !.kind = "object", !.w = 1]}
    \cup {[NoVal EXCEPT !.kind = "opt_object", !.w = -1]}
    \cup {[NoVal EXCEPT !.kind = "opt_object", !.some = FALSE]}
    \cup {[NoVal EXCEPT !.kind = "new_id", !.w = -1]}
    \cup {[NoVal EXCEPT !.kind = "string", !.bytes = b] : b \in Strings}
    \cup {[NoVal EXCEPT !.kind = "opt_string", !.bytes = << 104, 105, 0 >>]}
    \cup {[NoVal EXCEPT !.kind = "opt_string", !.some = FALSE]}
    \cup {[NoVal EXCEPT !.kind = "array", !.bytes = b] : b \in Arrays}
    \cup {[NoVal EXCEPT !.kind = "fd", !.fd = 5]}
    \cup {[NoVal EXCEPT !.kind = "message_hdr", !.w = 1, !.datalen = h[1], !.opcode = h[2]] :
              h \in {<< 4, 0 >>, << 8, 65535 >>, << 65532, 3 >>}}

\* the types a reader may expect where a value of type `kind` was written: the
\* type itself and the types that give a zero word a meaning of their own
ReadKinds(kind) ==
    CASE kind \in {"int", "uint", "fixed", "object", "opt_object", "new_id"} ->
              {kind, "object", "opt_object", "new_id"}
      [] kind \in {"array", "string", "opt_string"} -> {"array", "string", "opt_string"}
      [] OTHER -> {kind}

\* a buffer of BufLen bytes and FdLen FDs whose content is what was there before
CodecNew(g) ==
    /\ codec.c.end = 0
    /\ codec' = [codec EXCEPT !.c = [data |-> [i \in 1..BufLen |-> g],
                                     fds |-> [i \in 1..FdLen |-> -1],
                                     pos |-> 0, fpos |-> 0,
                                     end |-> BufLen, fend |-> FdLen]]
    /\ UNCHANGED << io, ioLock, reg, sock, wire, fut, woken, msgbuf, delivered, txlog,
                    completed, nsends, regio, alloc, chunk_iter, phasesync, travel_logs, message_queue, subqueue >>

Written(c, r, v) == [val |-> v, at |-> c.pos, to |-> r.c.pos, fat |-> c.fpos, fto |-> r.c.fpos]

\* v.write(&mut data, &mut fds) at the write cursor
CodecWrite(v) ==
    /\ codec.c.end > 0
    /\ Len(codec.log) < MaxValues
    /\ LET r == Value_write(codec.c, v)
       IN codec' = [codec EXCEPT !.c = r.c,
                                 !.log = IF r.ok THEN Append(@, Written(codec.c, r, v)) ELSE @,
                                 !.err = r.err,
                                 !.rd = NoRead]
    /\ UNCHANGED << io, ioLock, reg, sock, wire, fut, woken, msgbuf, delivered, txlog,
                    completed, nsends, regio, alloc, chunk_iter, phasesync, travel_logs, message_queue, subqueue >>

\* T::read(&mut data, &mut fds) over what was written from the i-th value on
CodecRead(i, kind) ==
    /\ i \in 1..Len(codec.log)
    /\ kind \in ReadKinds(codec.log[i].val.kind)
    /\ LET e == codec.log[i]
           rc == [codec.c EXCEPT !.pos = e.at, !.end = codec.c.pos,
                                 !.fpos = e.fat, !.fend = codec.c.fpos]
           r == Value_read(rc, kind)
       IN codec' = [codec EXCEPT !.rd = [i |-> i, kind |-> kind, ok |-> r.ok,
                                         err |-> r.err, val |-> r.val,
                                         to |-> r.c.pos, fto |-> r.c.fpos]]
    /\ UNCHANGED << io, ioLock, reg, sock, wire, fut, woken, msgbuf, delivered, txlog,
                    completed, nsends, regio, alloc, chunk_iter, phasesync, travel_logs, message_queue, subqueue >>

\* new_object_dyn::<I>() and the write of the new_id_dyn it returns
NewObjectDyn(I) ==
    /\ codec.c.end > 0
    /\ Len(codec.log) < MaxValues
    /\ reg.next_id < Id(2 + MaxObjects)
    /\ LET o == new_object(reg)
           v == new_object_dyn(I, o.id)
           r == Value_write(codec.c, v)
       IN /\ reg' = o.reg
          /\ alloc' = Allocated(alloc, o.id)
          /\ codec' = [codec EXCEPT !.c = r.c,
                                    !.log = IF r.ok THEN Append(@, Written(codec.c, r, v))
                                            ELSE @,
                                    !.err = r.err,
                                    !.rd = NoRead]
    /\ UNCHANGED << io, ioLock, sock, wire, fut, woken, msgbuf, delivered, txlog,
                    completed, nsends, chunk_iter, phasesync, travel_logs, message_queue, subqueue >>
    /\ regio' = FALSE

NextCodec ==
    \/ \E g \in FillBytes : CodecNew(g)
    \/ \E v \in CodecValues : CodecWrite(v)
    \/ \E i \in 1..MaxValues, kind \in {"int", "uint", "fixed", "object", "opt_object",
                                        "new_id", "array", "string", "opt_string", "fd",
                                        "message_hdr", "new_id_dyn"} : CodecRead(i, kind)
    \/ \E I \in Interfaces : NewObjectDyn(I)

SpecCodec == Init /\ [][NextCodec]_vars

-----------------------------------------------------------------------------
(* A ChunkIter run to its end *)

\* Phasesync<LEN> with LEN up to MaxLEN chunks
MaxLEN == 4

\* bit indexes within a chunk: the first, one inside, the last
Indexes == {0, 5, 63}

\* Phasesync::<LEN>::chunk_iter(start..=end)
ChunkIterNew(start, end, LEN) ==
    /\ chunk_iter.state = "new"
    /\ start.chunk < LEN /\ end.chunk < LEN
    /\ chunk_iter' = ChunkIter_new(start, end, LEN)
    /\ UNCHANGED << io, ioLock, reg, sock, wire, fut, woken, msgbuf, delivered, txlog,
                    completed, nsends, regio, alloc, codec, phasesync, travel_logs, message_queue, subqueue >>

\* iter.next(), up to and including the call that returns None
ChunkNext ==
    /\ chunk_iter.state \notin {"new", "done"}
    /\ LET r == ChunkIter_next(chunk_iter)
       IN chunk_iter' = IF r.some THEN [r.it EXCEPT !.out = Append(@, r.item)]
                        ELSE [r.it EXCEPT !.state = "done"]
    /\ UNCHANGED << io, ioLock, reg, sock, wire, fut, woken, msgbuf, delivered, txlog,
                    completed, nsends, regio, alloc, codec, phasesync, travel_logs, message_queue, subqueue >>

NextChunks ==
    \/ \E LEN \in 1..MaxLEN, sc \in 0..(MaxLEN - 1), ec \in 0..(MaxLEN - 1),
          si \in Indexes, ei \in Indexes :
          ChunkIterNew([chunk |-> sc, index |-> si], [chunk |-> ec, index |-> ei], LEN)
    \/ ChunkNext

SpecChunks == Init /\ [][NextChunks]_vars

-----------------------------------------------------------------------------
(* free_slots called by one or two threads on one Phasesync *)

\* `commit` calls recorded per call of free_slots
MaxCommits == 3

\* the chunks of the Phasesync when the calls start
PsChunks ==
    {<< {0, 1, 2} >>, << {1, 3} >>, << {0, 3} >>,
     << {63}, {0, 1} >>, << {63}, 0..63 >>, << {}, {5}, {} >>}

p(chunk, index) == [chunk |-> chunk, index |-> index]

\* the arguments (slots.start, slots.end, until) of the calls
PsCalls ==
    {<< p(0, 0), p(0, 0), p(0, 3) >>, << p(0, 0), p(0, 1), p(0, 3) >>,
     << p(0, 1), p(0, 1), p(0, 3) >>, << p(0, 2), p(0, 2), p(0, 3) >>,
     << p(0, 63), p(1, 0), p(1, 1) >>, << p(0, 0), p(0, 0), p(2, 0) >>}

\* the other variables of the model
OtherThanPhasesync ==
    << io, ioLock, reg, sock, wire, fut, woken, msgbuf, delivered, txlog, completed,
       nsends, regio, alloc, codec, chunk_iter, travel_logs, message_queue, subqueue >>

\* Phasesync { chunks }
PhasesyncNew(chunks) ==
    /\ phasesync.LEN = 0
    /\ phasesync' = [phasesync EXCEPT !.LEN = Len(chunks), !.chunks = chunks]
    /\ UNCHANGED OtherThanPhasesync

\* load_chunk(info) for the next ChunkInfo of the iterator: [some, it, info, val, mask]
load_next(ps, it) ==
    LET r == ChunkIter_next(it)
    IN [some |-> r.some, it |-> r.it, info |-> r.item,
        val |-> IF r.some THEN ps.chunks[r.item.chunk + 1] ELSE {},
        mask |-> ChunkInfo_mask(r.item)]

\* thread t calls free_slots(start..=end, until, commit) and enters fast_path
FreeSlots(t, start, end, until) ==
    /\ phasesync.LEN > 0
    /\ phasesync.th[t].pc = "idle"
    /\ start.chunk < phasesync.LEN /\ end.chunk < phasesync.LEN
    /\ until.chunk < phasesync.LEN
    /\ phasesync' = [phasesync EXCEPT
          !.th[t] = [@ EXCEPT !.pc = "fast",
                              !.slots = [start |-> start, end |-> end],
                              !.until = until,
                              !.it = ChunkIter_new(start, end, phasesync.LEN),
                              !.pre = phasesync.chunks]]
    /\ UNCHANGED OtherThanPhasesync

\* fast_path: the iterator yields the next chunk and it is loaded; at the end of
\* the iterator `all` is true and free_slots returns Successful
FastNext(t) ==
    /\ phasesync.th[t].pc = "fast"
    /\ LET c == phasesync.th[t]
           l == load_next(phasesync, c.it)
       IN phasesync' = [phasesync EXCEPT
             !.th[t] = IF l.some
                       THEN [c EXCEPT !.pc = "fast_cas", !.it = l.it, !.info = l.info,
                                      !.val = l.val, !.mask = l.mask]
                       ELSE [c EXCEPT !.pc = "done", !.it = l.it,
                                      !.ret = [NoRet EXCEPT !.kind = "Successful"]]]
    /\ UNCHANGED OtherThanPhasesync

\* one round of try_while(chunk, val, |val| val & mask == mask, |val| val & !mask);
\* when it returns false fast_path is false and slow_path starts
FastCas(t) ==
    /\ phasesync.th[t].pc = "fast_cas"
    /\ LET c == phasesync.th[t]
           at == c.info.chunk + 1
       IN phasesync' =
             IF ~(c.mask \subseteq c.val)
             THEN [phasesync EXCEPT
                      !.th[t] = [c EXCEPT !.pc = "reset",
                                          !.it = ChunkIter_new(c.slots.start, c.slots.end,
                                                               phasesync.LEN)]]
             ELSE IF phasesync.chunks[at] = c.val
             THEN [phasesync EXCEPT !.chunks[at] = c.val \ c.mask,
                                    !.th[t] = [c EXCEPT !.pc = "fast"]]
             ELSE [phasesync EXCEPT !.th[t] = [c EXCEPT !.val = phasesync.chunks[at]]]
    /\ UNCHANGED OtherThanPhasesync

\* slow_path, first pass: the next chunk of `slots` is loaded; at the end of the
\* iterator the search from one past the end of `slots` up to `until` starts
ResetNext(t) ==
    /\ phasesync.th[t].pc = "reset"
    /\ LET c == phasesync.th[t]
           l == load_next(phasesync, c.it)
       IN phasesync' = [phasesync EXCEPT
             !.th[t] = IF l.some
                       THEN [c EXCEPT !.pc = "reset_cas", !.it = l.it, !.info = l.info,
                                      !.val = l.val, !.mask = l.mask]
                       ELSE [c EXCEPT !.pc = "search",
                                      !.it = ChunkIter_new(
                                                 Pos_wrapping_add(c.slots.end, 1, phasesync.LEN),
                                                 c.until, phasesync.LEN)]]
    /\ UNCHANGED OtherThanPhasesync

\* one round of try_while(chunk, val, |_| true, |val| val | mask)
ResetCas(t) ==
    /\ phasesync.th[t].pc = "reset_cas"
    /\ LET c == phasesync.th[t]
           at == c.info.chunk + 1
       IN phasesync' =
             IF phasesync.chunks[at] = c.val
             THEN [phasesync EXCEPT !.chunks[at] = c.val \cup c.mask,
                                    !.th[t] = [c EXCEPT !.pc = "reset"]]
             ELSE [phasesync EXCEPT !.th[t] = [c EXCEPT !.val = phasesync.chunks[at]]]
    /\ UNCHANGED OtherThanPhasesync

\* find_map: the next chunk of the search range is loaded; at the end of the
\* iterator free_slots returns AllSlotsDead
SearchNext(t) ==
    /\ phasesync.th[t].pc = "search"
    /\ LET c == phasesync.th[t]
           l == load_next(phasesync, c.it)
       IN phasesync' = [phasesync EXCEPT
             !.th[t] = IF l.some
                       THEN [c EXCEPT !.pc = "loop", !.it = l.it, !.info = l.info,
                                      !.val = l.val, !.mask = l.mask,
                                      !.lower = l.info.lower]
                       ELSE [c EXCEPT !.pc = "done", !.it = l.it,
                                      !.ret = [NoRet EXCEPT !.kind = "AllSlotsDead"]]]
    /\ UNCHANGED OtherThanPhasesync

\* `commit(slot)` added to the calls recorded so far
Committed(c, slot) ==
    IF Len(c.commits) < MaxCommits THEN Append(c.commits, slot) ELSE c.commits

\* the head of `while let Some(index) = lowest_one(val & mask)`: with no bit the
\* closure returns None; with a bit at index and dead bits before it the dead
\* bits are re-set first, else commit(slot) is called
SearchLoop(t) ==
    /\ phasesync.th[t].pc = "loop"
    /\ LET c == phasesync.th[t]
           f == lowest_one(c.val \cap c.mask)
           slot == [chunk |-> c.info.chunk, index |-> f.index]
       IN phasesync' = [phasesync EXCEPT
             !.th[t] = IF ~f.some THEN [c EXCEPT !.pc = "search", !.bits = c.val \cap c.mask]
                       ELSE IF f.index >= 1 /\ c.lower < f.index - 1
                       THEN [c EXCEPT !.pc = "dead_cas", !.index = f.index,
                                      !.bits = c.val \cap c.mask]
                       ELSE [c EXCEPT !.pc = "select_cas", !.index = f.index,
                                      !.bits = c.val \cap c.mask,
                                      !.commits = Committed(c, slot)]]
    /\ UNCHANGED OtherThanPhasesync

\* one round of try_while_mut(chunk, &mut val, |val| val & (1 << index) == 1,
\* |val| val | bitmask_range(lower, prev_index)): true narrows the mask and goes
\* on to commit(slot), false is `continue`
DeadCas(t) ==
    /\ phasesync.th[t].pc = "dead_cas"
    /\ LET c == phasesync.th[t]
           at == c.info.chunk + 1
           prev_index == c.index - 1
           slot == [chunk |-> c.info.chunk, index |-> c.index]
       IN phasesync' =
             IF ~BitIsOne(c.val, c.index)
             THEN [phasesync EXCEPT !.th[t] = [c EXCEPT !.pc = "loop"]]
             ELSE IF phasesync.chunks[at] = c.val
             THEN [phasesync EXCEPT
                      !.chunks[at] = c.val \cup bitmask_range(c.lower, prev_index),
                      !.th[t] = [c EXCEPT !.pc = "select_cas",
                                          !.mask = bitmask_range(prev_index, c.info.upper),
                                          !.commits = Committed(c, slot)]]
             ELSE [phasesync EXCEPT !.th[t] = [c EXCEPT !.val = phasesync.chunks[at]]]
    /\ UNCHANGED OtherThanPhasesync

\* one round of try_while_mut(chunk, &mut val, |val| val & (1 << index) == 1,
\* |val| val & !(1 << index)): true returns Selected { slot }, false sets
\* lower = index and loops
SelectCas(t) ==
    /\ phasesync.th[t].pc = "select_cas"
    /\ LET c == phasesync.th[t]
           at == c.info.chunk + 1
           slot == [chunk |-> c.info.chunk, index |-> c.index]
       IN phasesync' =
             IF ~BitIsOne(c.val, c.index)
             THEN [phasesync EXCEPT !.th[t] = [c EXCEPT !.pc = "loop", !.lower = c.index]]
             ELSE IF phasesync.chunks[at] = c.val
             THEN [phasesync EXCEPT
                      !.chunks[at] = c.val \ {c.index},
                      !.th[t] = [c EXCEPT !.pc = "done",
                                          !.ret = [kind |-> "Selected", slot |-> slot]]]
             ELSE [phasesync EXCEPT !.th[t] = [c EXCEPT !.val = phasesync.chunks[at]]]
    /\ UNCHANGED OtherThanPhasesync

\* the steps of thread t inside free_slots
FreeStep(t) ==
    \/ FastNext(t)
    \/ FastCas(t)
    \/ ResetNext(t)
    \/ ResetCas(t)
    \/ SearchNext(t)
    \/ SearchLoop(t)
    \/ DeadCas(t)
    \/ SelectCas(t)

NextFree ==
    \/ \E chunks \in PsChunks : PhasesyncNew(chunks)
    \/ \E t \in Tasks, a \in PsCalls : FreeSlots(t, a[1], a[2], a[3])
    \/ \E t \in Tasks : FreeStep(t)

SpecFree == Init /\ [][NextFree]_vars

\* every thread that can take a step of free_slots eventually takes one
SpecFreeFair == SpecFree /\ \A t \in Tasks : WF_vars(FreeStep(t))

------------------------------------------------------------------------------
(* travel_logs: Buffer (travel_logs.rs) with the metadata `Bytes` and the
   allocator alloc_n of its tests (travel_logs/tests.rs), used by one or two
   threads *)

\* the data capacity of the tests' buffers (3 + 7 + 5 + 1) and Bytes::MAX_SLOTS
TlCap == 16
MAX_SLOTS == 8
\* the sizes the tests allocate
TlBytes == {3, 7}
\* the number of successful allocations of a run
MaxAllocs == 2

\* the other variables of the model
OtherThanBuffer ==
    << io, ioLock, reg, sock, wire, fut, woken, msgbuf, delivered, txlog, completed,
       nsends, regio, alloc, codec, chunk_iter, phasesync, message_queue, subqueue >>

\* Range::invert
Range_invert(r, capacity) ==
    [from |-> r.upto, upto |-> IF r.from = 0 THEN capacity - 1 ELSE r.from - 1]

\* Range::into_ring_bounds: (first, Option<second>) of std::ops::Range
into_ring_bounds(r, capacity) ==
    IF r.from <= r.upto
    THEN [r0 |-> [start |-> r.from, end |-> r.upto], some1 |-> FALSE,
          r1 |-> [start |-> 0, end |-> 0]]
    ELSE [r0 |-> [start |-> r.from, end |-> capacity], some1 |-> TRUE,
          r1 |-> [start |-> 0, end |-> r.upto]]

\* std::ops::Range::count
Range_count(r) == IF r.end > r.start THEN r.end - r.start ELSE 0

\* select_contiguos_range: [some, range]
select_contiguos_range(ranges, len) ==
    IF len <= Range_count(ranges.r0)
    THEN [some |-> TRUE,
          range |-> [from |-> ranges.r0.start, upto |-> ranges.r0.start + len]]
    ELSE IF ranges.some1 /\ len <= Range_count(ranges.r1)
    THEN [some |-> TRUE, range |-> [from |-> ranges.r0.start, upto |-> len]]
    ELSE [some |-> FALSE, range |-> Range_EMPTY]

\* find_alive_mark_dead on the bits `slice` (the set of the bits that are 1):
\* [some, idx, slice]
find_alive_mark_dead(slice, range) ==
    LET ones == {i \in range.start .. (range.end - 1) : i \in slice}
    IN IF ones # {}
       THEN LET idx == CHOOSE i \in ones : \A j \in ones : i <= j
            IN [some |-> TRUE, idx |-> idx,
                slice |-> slice \cup (range.start .. (idx - 1))]
       ELSE [some |-> FALSE, idx |-> 0,
             slice |-> slice \cup (range.start .. (range.end - 1))]

\* <Bytes as Message>::mark_dead: [free, slots]; every path returns Some(free)
Bytes_mark_dead(slots, allocated, dead) ==
    IF allocated.slot.from = dead.slot.from
    THEN LET ranges == into_ring_bounds([from |-> dead.slot.upto,
                                         upto |-> allocated.slot.upto], MAX_SLOTS)
             f0 == find_alive_mark_dead(slots, ranges.r0)
             f1 == find_alive_mark_dead(f0.slice, ranges.r1)
         IN IF f0.some
            THEN [free |-> [slot |-> [from |-> allocated.slot.from, upto |-> f0.idx],
                            data |-> dead.data],
                  slots |-> f0.slice]
            ELSE IF ranges.some1
            THEN IF f1.some
                 THEN [free |-> [slot |-> [from |-> allocated.slot.from,
                                           upto |-> f1.idx],
                                 data |-> dead.data],
                       slots |-> f1.slice]
                 ELSE [free |-> allocated, slots |-> f1.slice]
            ELSE [free |-> allocated, slots |-> f0.slice]
    ELSE [free |-> [slot |-> allocated.slot, data |-> allocated.data], slots |-> slots]

\* PointRange::to, which is <Bytes as Message>::dealloc
PointRange_to(range) == [slot |-> range.slot.upto, data |-> range.data.upto]

\* Buffer::allocated_range
allocated_range(b) ==
    [slot |-> [from |-> b.slot_free, upto |-> b.slot_next],
     data |-> [from |-> b.data_free, upto |-> b.data_next]]

\* Buffer::new(Bytes::new()): all four counters 0, the bits of Bytes all 1
BufferNew ==
    /\ travel_logs.cap = 0
    /\ travel_logs' = [travel_logs EXCEPT !.cap = TlCap, !.slots = 0 .. (MAX_SLOTS - 1)]
    /\ UNCHANGED OtherThanBuffer

\* thread t calls alloc_n(bytes)
AllocN(t, bytes) ==
    /\ travel_logs.cap > 0
    /\ travel_logs.th[t].pc = "idle"
    /\ travel_logs.allocs < MaxAllocs
    /\ travel_logs' = [travel_logs EXCEPT !.th[t] = [NoBufCall EXCEPT !.pc = "alloc_n",
                                                                    !.bytes = bytes]]
    /\ UNCHANGED OtherThanBuffer

\* alloc_n, one round of its loop up to the call of allocate: the allocated
\* range is loaded and a slot and a data range are selected; `?` returns None
AllocSelect(t) ==
    LET b == travel_logs
        c == b.th[t]
        a == allocated_range(b)
        slot == select_contiguos_range(
                    into_ring_bounds(Range_invert(a.slot, b.cap), MAX_SLOTS), 1)
        data == select_contiguos_range(
                    into_ring_bounds(Range_invert(a.data, b.cap), b.cap), c.bytes)
    IN /\ c.pc = "alloc_n"
       /\ travel_logs' = [travel_logs EXCEPT !.th[t] =
             IF slot.some /\ data.some
             THEN [c EXCEPT !.pc = "cas_slot",
                            !.range = [slot |-> slot.range, data |-> data.range]]
             ELSE NoBufCall]
       /\ UNCHANGED OtherThanBuffer

\* Buffer::allocate: slot_next.compare_exchange(range.slot.from, range.slot.upto);
\* on Err allocate returns None and alloc_n continues its loop
AllocateSlot(t) ==
    LET b == travel_logs
        c == b.th[t]
    IN /\ c.pc = "cas_slot"
       /\ travel_logs' =
             IF b.slot_next = c.range.slot.from
             THEN [b EXCEPT !.slot_next = c.range.slot.upto, !.th[t].pc = "cas_data"]
             ELSE [b EXCEPT !.th[t].pc = "alloc_n"]
       /\ UNCHANGED OtherThanBuffer

\* Buffer::allocate: data_next.compare_exchange(range.data.from, range.data.upto);
\* Ok returns the handle, Err marks the slots dead and returns None
AllocateData(t) ==
    LET b == travel_logs
        c == b.th[t]
    IN /\ c.pc = "cas_data"
       /\ travel_logs' =
             IF b.data_next = c.range.data.from
             THEN [b EXCEPT !.data_next = c.range.data.upto,
                            !.allocs = @ + 1,
                            !.live = @ \cup {[range |-> c.range, n |-> b.allocs + 1]},
                            !.th[t] = NoBufCall]
             ELSE [b EXCEPT !.th[t] = [c EXCEPT !.pc = "mark_dead",
                                                !.dead = [slot |-> c.range.slot,
                                                          data |-> Range_EMPTY],
                                                !.then = "alloc_n"]]
       /\ UNCHANGED OtherThanBuffer

\* Handle::dealloc(self) of the live handle h: the handle is consumed and
\* Buffer::mark_dead runs with its range
Handle_dealloc(t, h) ==
    /\ travel_logs.th[t].pc = "idle"
    /\ h \in travel_logs.live
    /\ travel_logs' = [travel_logs EXCEPT
          !.live = @ \ {h},
          !.th[t] = [NoBufCall EXCEPT !.pc = "mark_dead", !.dead = h.range]]
    /\ UNCHANGED OtherThanBuffer

\* Buffer::mark_dead: metadata.mark_dead(self.allocated_range(), range, handle)
\* and, in Buffer::dealloc, metadata.dealloc(free)
Buffer_mark_dead(t) ==
    LET b == travel_logs
        c == b.th[t]
        r == Bytes_mark_dead(b.slots, allocated_range(b), c.dead)
    IN /\ c.pc = "mark_dead"
       /\ travel_logs' = [b EXCEPT !.slots = r.slots,
                                   !.th[t] = [c EXCEPT !.pc = "store_slot",
                                                       !.free = PointRange_to(r.free)]]
       /\ UNCHANGED OtherThanBuffer

\* Buffer::dealloc: slot_free.store(free.slot)
Buffer_dealloc_slot(t) ==
    /\ travel_logs.th[t].pc = "store_slot"
    /\ travel_logs' = [travel_logs EXCEPT !.slot_free = travel_logs.th[t].free.slot,
                                          !.th[t].pc = "store_data"]
    /\ UNCHANGED OtherThanBuffer

\* Buffer::dealloc: data_free.store(free.data); then allocate returns None to
\* alloc_n, or Handle::dealloc returns
Buffer_dealloc_data(t) ==
    LET c == travel_logs.th[t]
    IN /\ c.pc = "store_data"
       /\ travel_logs' = [travel_logs EXCEPT
             !.data_free = c.free.data,
             !.th[t] = IF c.then = "alloc_n"
                       THEN [NoBufCall EXCEPT !.pc = "alloc_n", !.bytes = c.bytes]
                       ELSE NoBufCall]
       /\ UNCHANGED OtherThanBuffer

NextBuffer ==
    \/ BufferNew
    \/ \E t \in Tasks, bytes \in TlBytes : AllocN(t, bytes)
    \/ \E t \in Tasks : AllocSelect(t)
    \/ \E t \in Tasks : AllocateSlot(t)
    \/ \E t \in Tasks : AllocateData(t)
    \/ \E t \in Tasks : \E h \in travel_logs.live : Handle_dealloc(t, h)
    \/ \E t \in Tasks : Buffer_mark_dead(t)
    \/ \E t \in Tasks : Buffer_dealloc_slot(t)
    \/ \E t \in Tasks : Buffer_dealloc_data(t)

SpecBuffer == Init /\ [][NextBuffer]_vars

------------------------------------------------------------------------------
(* compositor: Subqueue::allocate (socket/buffer.rs), and the space handed
   back as MessageQueue::deallocate does *)

\* the capacity of the Subqueue and the lengths asked for
SubCapacity == 6
SubLens == {1, 2, 3}

\* the other variables of the model
OtherThanSubqueue ==
    << io, ioLock, reg, sock, wire, fut, woken, msgbuf, delivered, txlog, completed,
       nsends, regio, alloc, codec, chunk_iter, phasesync, travel_logs, message_queue >>

\* Subqueue { capacity, write_next: 0, write_until: 0 }
SubqueueNew ==
    /\ subqueue.capacity = 0
    /\ subqueue' = [subqueue EXCEPT !.capacity = SubCapacity]
    /\ UNCHANGED OtherThanSubqueue

\* the block 'enough_space of Subqueue::allocate for the loaded write_next and
\* write_until: [ret, write_next, new_write_next]; ret is "none" for `return None`
\* and "cas" when the loop goes on to the compare-exchange
enough_space(capacity, write_next, write_until, len) ==
    LET wrap == [ret |-> IF write_until < len THEN "none" ELSE "cas",
                 write_next |-> 0,
                 new_write_next |-> IF write_until = len THEN capacity ELSE len]
    IN IF write_until <= write_next
       THEN IF len < capacity - write_next
            THEN [ret |-> "cas", write_next |-> write_next,
                  new_write_next |-> write_next + len]
            ELSE IF write_next = capacity
            THEN [ret |-> "none", write_next |-> write_next, new_write_next |-> 0]
            ELSE wrap
       ELSE [ret |-> IF write_until - write_next < len THEN "none" ELSE "cas",
             write_next |-> write_next,
             new_write_next |-> IF write_until - write_next = len THEN capacity
                                ELSE write_next + len]

\* thread t calls allocate(len) and loads write_next and write_until
Subqueue_allocate(t, len) ==
    /\ subqueue.capacity > 0
    /\ subqueue.th[t].pc = "idle"
    /\ subqueue' = [subqueue EXCEPT
          !.th[t] = [NoSubCall EXCEPT !.pc = "loop", !.len = len,
                                      !.write_next = subqueue.write_next,
                                      !.write_until = subqueue.write_until]]
    /\ UNCHANGED OtherThanSubqueue

\* one round of the loop up to the compare-exchange, or `return None`
Subqueue_loop(t) ==
    LET c == subqueue.th[t]
        r == enough_space(subqueue.capacity, c.write_next, c.write_until, c.len)
    IN /\ c.pc = "loop"
       /\ subqueue' = [subqueue EXCEPT !.th[t] =
             IF r.ret = "none" THEN NoSubCall
             ELSE [c EXCEPT !.pc = "cas", !.write_next = r.write_next,
                            !.new_write_next = r.new_write_next]]
       /\ UNCHANGED OtherThanSubqueue

\* write_next.compare_exchange_weak(write_next, new_write_next): Ok returns the
\* handle of the range at write_next, Err re-fetches both indexes and loops
Subqueue_cas(t) ==
    LET c == subqueue.th[t]
    IN /\ c.pc = "cas"
       /\ subqueue' =
             IF subqueue.write_next = c.write_next
             THEN [subqueue EXCEPT
                      !.write_next = c.new_write_next,
                      !.live = Append(@, [index |-> c.write_next, len |-> c.len]),
                      !.th[t] = NoSubCall]
             ELSE [subqueue EXCEPT
                      !.th[t] = [c EXCEPT !.pc = "loop",
                                          !.write_next = subqueue.write_next,
                                          !.write_until = subqueue.write_until]]
       /\ UNCHANGED OtherThanSubqueue

\* MessageQueue::deallocate of the oldest message: write_until moves to the
\* start of the next one, or the whole queue is reset when it was the last
Subqueue_release ==
    /\ subqueue.live # << >>
    /\ IF Len(subqueue.live) > 1
       THEN subqueue' = [subqueue EXCEPT !.live = Tail(@),
                                         !.write_until = subqueue.live[2].index]
       ELSE /\ \A t \in Tasks : subqueue.th[t].pc = "idle"
            /\ subqueue' = [subqueue EXCEPT !.live = << >>, !.write_until = 0,
                                            !.write_next = 0]
    /\ UNCHANGED OtherThanSubqueue

\* a step of thread t inside allocate
SubStep(t) == Subqueue_loop(t) \/ Subqueue_cas(t)

\* allocate is called by the thread that holds the lock of the MessageQueue
\* (allocate_message, buffer.rs 59-60): one thread at a time
SubAllocators == {1}

NextSub ==
    \/ SubqueueNew
    \/ \E t \in SubAllocators, len \in SubLens : Subqueue_allocate(t, len)
    \/ \E t \in SubAllocators : SubStep(t)
    \/ Subqueue_release

SpecSub == Init /\ [][NextSub]_vars

\* the thread inside allocate eventually takes its next step
SpecSubFair == SpecSub /\ \A t \in SubAllocators : WF_vars(SubStep(t))

------------------------------------------------------------------------------
(* compositor: MessageQueue::allocate_message and MessageQueue::deallocate
   (socket/buffer.rs), called by two threads *)

\* `const PROCESSING: usize = usize::MAX`, held as the signed reading of its bits
PROCESSING == -1

\* the capacities of the queue and of its two Subqueues
MqCapacity == 2
MqDataCapacity == 4
MqFdsCapacity == 2
\* the sizes asked for: (data, fds)
MqSizes == {<< 1, 0 >>, << 2, 1 >>, << 4, 0 >>, << 1, 2 >>}

\* the other variables of the model
OtherThanMessageQueue ==
    << io, ioLock, reg, sock, wire, fut, woken, msgbuf, delivered, txlog, completed,
       nsends, regio, alloc, codec, chunk_iter, phasesync, travel_logs, subqueue >>

\* Message { is_active, data_start, fds_start }; no code of buffer.rs writes
\* data_start or fds_start
NewMessage == [is_active |-> TRUE, data_start |-> 0, fds_start |-> 0]

\* the empty queue, as MessageQueue::deallocate resets it
MessageQueueNew ==
    /\ message_queue.capacity = 0
    /\ message_queue' = [message_queue EXCEPT
          !.capacity = MqCapacity,
          !.buf = [j \in 1..MqCapacity |-> NewMessage],
          !.data = [NoSub EXCEPT !.capacity = MqDataCapacity],
          !.fds = [NoSub EXCEPT !.capacity = MqFdsCapacity]]
    /\ UNCHANGED OtherThanMessageQueue

\* Subqueue::allocate(len) run by the only thread that may allocate:
\* [ret, q]; ret is "none", "some", or "spin" when the compare-exchange of the
\* wrap-around path fails in every round
Subqueue_run(q, len) ==
    LET r == enough_space(q.capacity, q.write_next, q.write_until, len)
    IN IF r.ret = "none" THEN [ret |-> "none", q |-> q]
       ELSE IF r.write_next = q.write_next
       THEN [ret |-> "some", q |-> [q EXCEPT !.write_next = r.new_write_next]]
       ELSE [ret |-> "spin", q |-> q]

\* thread t calls allocate_message(data, fds) and loads write_next
allocate_message(t, data, fds) ==
    /\ message_queue.capacity > 0
    /\ message_queue.th[t].pc = "idle"
    /\ message_queue' = [message_queue EXCEPT
          !.th[t] = [NoMqCall EXCEPT !.pc = "lock", !.data = data, !.fds = fds,
                                     !.write_next = message_queue.write_next]]
    /\ UNCHANGED OtherThanMessageQueue

\* one round of the first loop: spin on PROCESSING, bail when the queue is
\* full, else try to lock write_next with compare_exchange_weak
MqLock(t) ==
    LET q == message_queue
        c == q.th[t]
    IN /\ c.pc = "lock"
       /\ message_queue' =
             IF c.write_next = PROCESSING
             THEN [q EXCEPT !.th[t].write_next = q.write_next]
             ELSE IF c.write_next = q.capacity
             THEN [q EXCEPT !.th[t] = NoMqCall]
             ELSE IF q.write_next = c.write_next
             THEN [q EXCEPT !.write_next = PROCESSING,
                            !.th[t] = [c EXCEPT !.pc = "data", !.index = c.write_next]]
             ELSE [q EXCEPT !.th[t].write_next = q.write_next]
       /\ UNCHANGED OtherThanMessageQueue

\* `let data_handle = self.data.allocate(data)?`
MqData(t) ==
    LET q == message_queue
        c == q.th[t]
        r == Subqueue_run(q.data, c.data)
    IN /\ c.pc = "data"
       /\ r.ret # "spin"
       /\ message_queue' =
             IF r.ret = "none" THEN [q EXCEPT !.th[t] = NoMqCall]
             ELSE [q EXCEPT !.data = r.q, !.th[t].pc = "fds"]
       /\ UNCHANGED OtherThanMessageQueue

\* `let fds_handle = self.fds.allocate(fds)?`
MqFds(t) ==
    LET q == message_queue
        c == q.th[t]
        r == Subqueue_run(q.fds, c.fds)
    IN /\ c.pc = "fds"
       /\ r.ret # "spin"
       /\ message_queue' =
             IF r.ret = "none" THEN [q EXCEPT !.th[t] = NoMqCall]
             ELSE [q EXCEPT !.fds = r.q, !.th[t].pc = "store"]
       /\ UNCHANGED OtherThanMessageQueue

\* the new write_next is computed, compared with write_until and stored; the
\* MessageHandle of `index` is returned
MqStore(t) ==
    LET q == message_queue
        c == q.th[t]
        next == IF c.index + 1 < q.capacity THEN c.index + 1 ELSE 0
    IN /\ c.pc = "store"
       /\ message_queue' = [q EXCEPT
             !.write_next = IF next = q.write_until THEN q.capacity ELSE next,
             !.held = @ \cup {c.index},
             !.th[t] = NoMqCall]
       /\ UNCHANGED OtherThanMessageQueue

\* thread t calls deallocate(index) for a handle: a message that is not the
\* first active one becomes a tombstone
deallocate(t, index) ==
    LET q == message_queue
    IN /\ q.th[t].pc = "idle"
       /\ index \in q.held
       /\ message_queue' =
             IF q.write_until # index
             THEN [q EXCEPT !.held = @ \ {index},
                            !.buf[index + 1].is_active = FALSE]
             ELSE [q EXCEPT !.held = @ \ {index},
                            !.th[t] = [NoMqCall EXCEPT !.pc = "load", !.index = index]]
       /\ UNCHANGED OtherThanMessageQueue

\* `let mut write_next = loop { ... }`: spin until write_next is not PROCESSING
MqLoad(t) ==
    LET q == message_queue
        c == q.th[t]
    IN /\ c.pc = "load"
       /\ q.write_next # PROCESSING
       /\ message_queue' = [q EXCEPT
             !.th[t] = [c EXCEPT !.pc = "cleanup", !.write_next = q.write_next,
                                 !.cleanup_until = c.index + 1]]
       /\ UNCHANGED OtherThanMessageQueue

\* one round of 'cleanup up to the lock, the hand-over to an active message, or
\* the next message
MqCleanup(t) ==
    LET q == message_queue
        c == q.th[t]
        cu == IF c.cleanup_until = q.capacity THEN 0 ELSE c.cleanup_until
        m == q.buf[cu + 1]
    IN /\ c.pc = "cleanup"
       /\ message_queue' =
             IF cu = c.write_next \/ cu = c.index
             THEN [q EXCEPT !.th[t] = [c EXCEPT !.pc = "take", !.cleanup_until = cu]]
             ELSE IF m.is_active
             THEN [q EXCEPT !.data.write_until = m.data_start,
                            !.fds.write_until = m.fds_start,
                            !.write_until = cu,
                            !.th[t] = NoMqCall]
             ELSE [q EXCEPT !.buf[cu + 1].is_active = TRUE,
                            !.th[t] = [c EXCEPT !.cleanup_until = cu + 1]]
       /\ UNCHANGED OtherThanMessageQueue

\* the compare_exchange_weak(write_next, PROCESSING) of deallocate: Ok takes the
\* lock; with another value in write_next the cleanup goes on
MqTake(t) ==
    LET q == message_queue
        c == q.th[t]
    IN /\ c.pc = "take"
       /\ q.write_next # PROCESSING
       /\ q.write_next = c.write_next \/ c.cleanup_until # q.write_next
       /\ message_queue' =
             IF q.write_next = c.write_next
             THEN [q EXCEPT !.write_next = PROCESSING, !.th[t].pc = "reset"]
             ELSE [q EXCEPT !.th[t] = [c EXCEPT !.pc = "cleanup",
                                                !.write_next = q.write_next]]
       /\ UNCHANGED OtherThanMessageQueue

\* the whole queue is reset and the lock released
MqReset(t) ==
    LET q == message_queue
    IN /\ q.th[t].pc = "reset"
       /\ message_queue' = [q EXCEPT !.data.write_until = 0, !.data.write_next = 0,
                                     !.fds.write_until = 0, !.fds.write_next = 0,
                                     !.write_until = 0, !.write_next = 0,
                                     !.th[t] = NoMqCall]
       /\ UNCHANGED OtherThanMessageQueue

NextMq ==
    \/ MessageQueueNew
    \/ \E t \in Tasks, s \in MqSizes : allocate_message(t, s[1], s[2])
    \/ \E t \in Tasks : MqLock(t)
    \/ \E t \in Tasks : MqData(t)
    \/ \E t \in Tasks : MqFds(t)
    \/ \E t \in Tasks : MqStore(t)
    \/ \E t \in Tasks : \E index \in message_queue.held : deallocate(t, index)
    \/ \E t \in Tasks : MqLoad(t)
    \/ \E t \in Tasks : MqCleanup(t)
    \/ \E t \in Tasks : MqTake(t)
    \/ \E t \in Tasks : MqReset(t)

SpecMq == Init /\ [][NextMq]_vars

-----------------------------------------------------------------------------
(* Properties of the receive path *)

\* the header of frame k of the received stream
WireHdr(k) == HeaderAt(FrameStart(wire, k))

\* the frame the next successful recv returns
NextFrame == Len(delivered) + 1

\* C1 (routing): a recv future of object X resolves only with a frame whose
\* header object_id is X's id, and whenever a header stays cached after a poll
\* (in particular after a poll of X found a header addressed to another object Y
\* and its body buffered) the rx data and FD heads stand right behind that header
\* and the cached header is the one of the next undelivered frame, so that Y's
\* next poll obtains exactly that frame.
C1_Routing ==
    /\ \A k \in 1..Len(delivered) : delivered[k].hdr.object_id = delivered[k].obj
    /\ io.rx_hdr.some =>
          /\ NextFrame <= Len(wire)
          /\ io.rx_hdr = WireHdr(NextFrame)
          /\ io.rx.da.off = FrameStart(wire, NextFrame) + HDR_LEN
          /\ io.rx.fd.off = FrameFdStart(wire, NextFrame)

\* a poll of one object has just found the buffered frame of another object and
\* handed it over, after an earlier frame had been delivered
C1_Witness ==
    /\ regio
    /\ Len(delivered) >= 1
    /\ io.rx_hdr.some
    /\ \E t \in Tasks : fut[t].kind = "recv" /\ fut[t].obj # io.rx_hdr.object_id
                          /\ reg.receiver_map[fut[t].obj] = t
    /\ io.rx.da.len >= content_len(io.rx_hdr)
    /\ io.rx.fd.len >= fd_count(io.rx_hdr.object_id, io.rx_hdr.opcode)

\* C2 (no starvation): when every object awaits one event and the peer sends one
\* frame per object, every recv future eventually resolves with its frame,
\* whatever the order of the polls and however long a receiver keeps its message.
\* Stated on the runs of SpecOnce that have come to rest: the peer has sent its
\* frame to every object and all bytes have arrived, every task has started its
\* recv, no message is held any more and no task is woken, so that no step of
\* NextOnce is left; then every task has got its frame.
AtRest ==
    /\ \A o \in Objs : \E k \in 1..Len(wire) : wire[k].object_id = o
    /\ sock.arrived = StreamLen(wire, Len(wire))
    /\ \A t \in Tasks : fut[t].kind # "none" \/ \E k \in 1..Len(delivered) :
                                                     delivered[k].task = t
    /\ \A t \in Tasks : ~msgbuf[t].some
    /\ woken = {}

C2_NoStarvation ==
    AtRest => \A t \in Tasks : \E k \in 1..Len(delivered) : delivered[k].task = t

\* C3 (per-object receive order): the k-th frame the recv futures return is the
\* k-th frame of the wire, header and body; so the frames of one object are
\* returned in wire order, none skipped and none twice, whatever recv, send and
\* flush polls run in between.
C3_RecvOrder ==
    \A k \in 1..Len(delivered) :
        /\ k <= Len(wire)
        /\ delivered[k].hdr = WireHdr(k)
        /\ delivered[k].buf = [da_off |-> FrameStart(wire, k) + HDR_LEN,
                               da_len |-> wire[k].len,
                               fd_off |-> FrameFdStart(wire, k),
                               fd_len |-> wire[k].fds]

\* two frames of one object were returned while a send had put a frame in the tx ring
C3_Witness ==
    /\ Len(delivered) >= 2
    /\ delivered[1].obj = delivered[2].obj
    /\ txlog # << >>

\* The rx side describes exactly the undelivered rest of the received stream:
\* the heads stand at the next undelivered frame (behind its header when that is
\* cached), and the buffered bytes and FDs are the ones that follow.
RxInSync ==
    LET base == FrameStart(wire, NextFrame)
        end == io.rx.da.off + io.rx.da.len
    IN /\ io.rx.da.off = IF io.rx_hdr.some THEN base + HDR_LEN ELSE base
       /\ io.rx.fd.off = FrameFdStart(wire, NextFrame)
       /\ io.rx_hdr.some => NextFrame <= Len(wire) /\ io.rx_hdr = WireHdr(NextFrame)
       /\ end <= sock.arrived
       /\ io.rx.fd.off + io.rx.fd.len = FdsBefore(wire, Len(wire), end)
       /\ io.rx.da.start + io.rx.da.len <= MAX_DATA
       /\ io.rx.fd.start + io.rx.fd.len <= FD_RING_LEN

\* C9 (recv cancellation safety): while a recv future is pending, after any of
\* its polls, the Io state is in sync with the stream, and dropping the future
\* changes neither the Io state nor what was delivered; the recv futures created
\* afterwards therefore get the frames they would have got without it.
C9_RecvCancelSafe ==
    /\ []((\E t \in Tasks : fut[t].kind = "recv") => RxInSync)
    /\ [][\A t \in Tasks : (fut[t].kind = "recv" /\ DropFuture(t)) =>
              (io' = io /\ delivered' = delivered /\ RxInSync')]_vars

\* a recv future whose poll left a cached header and a partly buffered body is
\* about to be dropped: it is pending, not woken, and the only one
C9_Witness ==
    /\ \E t \in Tasks : /\ fut[t].kind = "recv"
                          /\ fut[t].iofut # "none"
                          /\ \A u \in Tasks \ {t} : fut[u].kind = "none"
    /\ io.rx_hdr.some
    /\ io.rx.fd.len > 0
    /\ Len(delivered) >= 1

-----------------------------------------------------------------------------
(* Properties of the send path *)

\* the place in txlog of the frame the send future `id` wrote (0: it wrote none)
TxIndex(id) ==
    IF \E j \in 1..Len(txlog) : txlog[j].id = id
    THEN CHOOSE j \in 1..Len(txlog) : txlog[j].id = id
    ELSE 0

\* send futures that completed with Ok(()) after writing their frame
Sent == {k \in 1..Len(completed) : completed[k].ok /\ TxIndex(completed[k].id) # 0}

\* C4 as claimed: of two send futures on one object, the one that completed first
\* has its frame first in the tx ring.
C4_TxOrderIsCompletionOrder ==
    \A a, b \in Sent :
        (a < b /\ completed[a].obj = completed[b].obj) =>
            txlog[TxIndex(completed[a].id)].off < txlog[TxIndex(completed[b].id)].off

\* C4 as the code has it: the frames lie in the tx ring in the order in which the
\* polls of their send futures wrote them (tx_msg_buf succeeded), each right
\* behind the data and the FDs of the frames written before it and with the
\* header of its own object and length; a future that wrote first may complete
\* later.
C4_TxOrderIsWriteOrder ==
    \A j \in 1..Len(txlog) :
        /\ txlog[j].off = StreamLen(txlog, j - 1)
        /\ txlog[j].fd_off = StreamFds(txlog, j - 1)
        /\ txlog[j].datalen = FrameLen(txlog[j])
        /\ \A k \in 1..Len(completed) :
              completed[k].id = txlog[j].id => completed[k].obj = txlog[j].object_id

\* two sends on one object both completed, the one that wrote second first
C4_Witness ==
    \E a, b \in Sent :
        /\ a < b
        /\ completed[a].obj = completed[b].obj
        /\ TxIndex(completed[a].id) > TxIndex(completed[b].id)

\* C5: a send future that resolved Ready(Ok) had written its frame into the tx ring
\* (tx_msg_buf had succeeded for its message).
C5_SendOkWritten ==
    \A k \in 1..Len(completed) :
        completed[k].ok => \E j \in 1..Len(txlog) : txlog[j].id = completed[k].id

\* C6: a send future whose first poll found SEND_CLOSED never resolves Ready.
C6_ClosedSendHangs ==
    \A k \in 1..Len(completed) : ~(completed[k].saw_closed /\ completed[k].ok)

\* the tx ring holds what was written and not yet accepted by the kernel: its
\* tail is the end of the last frame written, its head the first byte and FD the
\* kernel has not taken
TxRingKeeps ==
    /\ io.tx.da.off + io.tx.da.len = StreamLen(txlog, Len(txlog))
    /\ io.tx.fd.off + io.tx.fd.len = StreamFds(txlog, Len(txlog))
    /\ io.tx.da.off = sock.sent
    /\ io.tx.fd.off = sock.sent_fds

\* send futures that were dropped after writing their frame
Dropped ==
    {j \in 1..Len(txlog) :
        /\ \A t \in Tasks : fut[t].id # txlog[j].id
        /\ \A k \in 1..Len(completed) : completed[k].id # txlog[j].id}

\* C10: dropping a send future whose poll wrote the frame leaves the tx ring as it
\* is (data and FD heads and tails), and the ring keeps every written frame until
\* an I/O drive of whatever future has handed it to the kernel.
C10_DropKeepsFrame ==
    /\ []TxRingKeeps
    /\ [][\A t \in Tasks :
              (fut[t].kind = "send" /\ TxIndex(fut[t].id) # 0 /\ DropFuture(t)) =>
                  (io'.tx = io.tx /\ txlog' = txlog)]_vars

\* the frame of a dropped send future went out with a later drive
C10_Witness ==
    \E j \in Dropped : sock.sent >= txlog[j].off + FrameLen(txlog[j])

\* C8: no Io operation (rx_msg_buf, tx_msg_buf, drive_io and the syscalls in it)
\* runs while the Registry guard is alive.
C8_RegistryNotHeldAcrossIo == ~regio

-----------------------------------------------------------------------------
(* Properties of the Io layer *)

\* C7: once the tx ring is completely flushed (no data and no FD left in it), a
\* frame no larger than the maximum frame fits: tx_msg_buf succeeds for it,
\* however many bytes and FDs went out before.
C7_FlushedFrameFits ==
    (io.tx.da.len = 0 /\ io.tx.fd.len = 0 /\ "SEND_CLOSED" \notin io.interest) =>
        \A m \in BigMsgs : tx_msg_buf(io, 2, m).ok

-----------------------------------------------------------------------------
(* Properties of the Io lock *)

\* a poll of the future of task t that runs while a MsgBuf is alive
LockedPoll(t) ==
    /\ \E u \in Tasks : msgbuf[u].some
    /\ fut[t].kind \in {"recv", "send", "flush"}
    /\ DoPoll(t)

-----------------------------------------------------------------------------
(* Properties of the object id allocator *)

\* C12: the first id new_object returns is 2, and each later one is strictly
\* greater than the one before it; hence no id is returned twice and ids 0 and 1
\* are never returned.
C12_IdsStrictlyIncrease ==
    /\ alloc.n >= 1 => alloc.first = Id(2) /\ alloc.last >= Id(2)
    /\ alloc.n >= 2 => alloc.prev < alloc.last

\* C13: once the counter has saturated (a call has returned the maximum id, after
\* which the counter cannot grow), new_object hands out no further id.  Stated on
\* the history: the maximum id is not returned by two calls in a row.
C13_SaturatedIsFatal ==
    ~(alloc.n >= 2 /\ alloc.prev = ID_MAX /\ alloc.last = ID_MAX)

-----------------------------------------------------------------------------
(* Multiplexed receive *)

\* the run of SpecMux has come to rest: both frames have arrived, no message is
\* held and no task is woken
MuxAtRest ==
    /\ sock.arrived > 0
    /\ \A t \in Tasks : ~msgbuf[t].some
    /\ woken = {}

\* C14: with objects 2 and 3 both awaiting an event and a frame for 3 followed by
\* a frame for 2 delivered by one recvmsg, the recv of 3 resolves first and the
\* recv of 2 second, whichever is polled first: the first frame returned is the
\* one of object 3 and the second the one of object 2; when the first is returned
\* both frames are in the rx ring and the socket's read readiness is used up, so
\* that no later poll calls recvmsg; and once the run has come to rest both recv
\* futures have resolved.
C14_MultiplexedRecv ==
    /\ Len(delivered) >= 1 =>
          /\ delivered[1].obj = 3
          /\ io.rx.da.off + io.rx.da.len = StreamLen(wire, 2)
          /\ ~sock.readable
    /\ Len(delivered) >= 2 => delivered[2].obj = 2
    /\ MuxAtRest => Len(delivered) = 2

\* the part of C14 that holds: the order of the resolutions and no recvmsg after
\* the drive that read both frames
C14_OrderAndNoSyscall ==
    /\ Len(delivered) >= 1 =>
          /\ delivered[1].obj = 3
          /\ io.rx.da.off + io.rx.da.len = StreamLen(wire, 2)
          /\ ~sock.readable
    /\ Len(delivered) >= 2 => delivered[2].obj = 2

-----------------------------------------------------------------------------
(* Properties of the rx ring *)

\* C15: every buffer Io::recv hands to recvmsg lies inside the rx-data allocation
\* (it starts at the end of the occupied region, so it cannot overlap it), and
\* its length is computed without underflow, whatever the occupied region, the
\* free tail and the cached header are.
C15_RecvRegionInside == ~io.overrun /\ ~io.underflow

\* C16: whenever a header is cached and its body is only partly buffered, the
\* free tail of the rx ring has room for the rest of the body, so that the next
\* recvmsg can bring it in.
C16_BodyFits ==
    (/\ io.rx_hdr.some
     /\ 0 < io.rx.da.len
     /\ io.rx.da.len < content_len(io.rx_hdr)) =>
        unused_end(io.rx.da, MAX_DATA) >= content_len(io.rx_hdr) - io.rx.da.len

-----------------------------------------------------------------------------
(* Properties of tx_msg_buf *)

TxTail(i) == i.tx.da.start + i.tx.da.len
TxFdTail(i) == i.tx.fd.start + i.tx.fd.len

\* C17: tx_msg_buf is all-or-nothing.  It succeeds exactly when the free tail of
\* the tx-data ring has 8 + msg.len() bytes and the free tail of the tx-FD ring
\* has the message's FD count; then the data tail advances by exactly
\* 8 + msg.len() and the FD tail by exactly the FD count.  Otherwise, also when
\* only one of the two rings lacks room, both rings are left as they were.
C17_TxAllOrNothing ==
    [][\A m \in TxMsgs : IoTxWrite(m) =>
           IF /\ unused_end(io.tx.da, MAX_DATA) >= HDR_LEN + m.len
              /\ unused_end(io.tx.fd, FD_RING_LEN) >= m.fds
           THEN /\ TxTail(io') = TxTail(io) + HDR_LEN + m.len
                /\ TxFdTail(io') = TxFdTail(io) + m.fds
                /\ io'.tx.da.start = io.tx.da.start /\ io'.tx.fd.start = io.tx.fd.start
                /\ Len(txlog') = Len(txlog) + 1
           ELSE io'.tx = io.tx /\ txlog' = txlog]_vars

\* tx_msg_buf has failed (it asked for SEND and wrote nothing) although the
\* tx-data ring had room for any frame: only the tx-FD ring was full
C17_Witness ==
    /\ "SEND" \in io.interest
    /\ txlog = << >>
    /\ io.tx.da.len = 0
    /\ unused_end(io.tx.fd, FD_RING_LEN) = 0
    /\ unused_end(io.tx.da, MAX_DATA) > 2 * WAYLAND_MAX_MESSAGE_LEN

\* C19: the header tx_msg_buf writes for an accepted message carries the sender's
\* object id, the opcode of the message and datalen = 8 + msg.len(), and the
\* payload region begins right behind it.
C19_HeaderMatchesMessage ==
    \A j \in 1..Len(txlog) :
        /\ txlog[j].object_id = 2
        /\ txlog[j].opcode = 0
        /\ txlog[j].datalen = HDR_LEN + txlog[j].len

-----------------------------------------------------------------------------
(* Properties of rx_msg_buf *)

\* C18: rx_msg_buf((len, fds)) succeeds exactly when at least len bytes and at
\* least fds descriptors are buffered, and then moves the rx-data head forward by
\* exactly len and the rx-FD head by exactly fds, returning the region it passed
\* over.  Otherwise, also when the bytes are there and the FDs are not, both heads
\* stay where they were and nothing is returned.
C18_RxAllOrNothing ==
    [][\A a \in RxTakes : IoRxMsgBuf(a[1], a[2]) =>
           IF io.rx.da.len >= a[1] /\ io.rx.fd.len >= a[2]
           THEN /\ io'.rx.da.start = io.rx.da.start + a[1]
                /\ io'.rx.da.len = io.rx.da.len - a[1]
                /\ io'.rx.fd.start = io.rx.fd.start + a[2]
                /\ io'.rx.fd.len = io.rx.fd.len - a[2]
                /\ Len(delivered') = Len(delivered) + 1
                /\ delivered'[Len(delivered')].buf =
                       [da_off |-> io.rx.da.off, da_len |-> a[1],
                        fd_off |-> io.rx.fd.off, fd_len |-> a[2]]
           ELSE io'.rx = io.rx /\ delivered' = delivered]_vars

\* after a header was taken, rx_msg_buf has failed (it asked for RECV and
\* returned nothing) although the ring held the bytes of every body asked for:
\* the FDs were missing
C18_Witness ==
    /\ "RECV" \in io.interest
    /\ Len(delivered) = 1 /\ delivered[1].buf.da_len = HDR_LEN
    /\ io.rx.da.len >= 3 * UINT_LEN
    /\ io.rx.fd.len = 0

-----------------------------------------------------------------------------
(* The last sender *)

\* the poll of the send future of task t returns Ready(Ok) and its wake_sender
\* call finds no sender parked
LastSenderDone(t) ==
    /\ fut[t].kind = "send"
    /\ reg.sender_locked = 0 /\ reg.sender_queue = << >>
    /\ DoPoll(t)
    /\ Len(completed') = Len(completed) + 1
    /\ completed'[Len(completed')].ok

\* C20: when a send future that woke no other sender resolves Ready(Ok), the tx
\* ring is empty: every buffered byte has been handed to the kernel.
C20_LastSenderFlushes ==
    [][\A t \in Tasks : LastSenderDone(t) => is_empty(io'.tx)]_vars

-----------------------------------------------------------------------------
(* Flush *)

\* the flush future of task t is polled with the Io lock free
FlushPoll(t) == fut[t].kind = "flush" /\ ioLock = 0 /\ DoPoll(t)

\* the poll leaves bytes in the tx ring of a connection whose sending side is closed
ClosedWithBytes(i) == "SEND_CLOSED" \in i.interest /\ ~is_empty(i.tx)

-----------------------------------------------------------------------------
(* The closed receiving side *)

\* the next undelivered frame lies complete in the rx rings
NextComplete ==
    /\ NextFrame <= Len(wire)
    /\ io.rx.da.off + io.rx.da.len >= StreamLen(wire, NextFrame)
    /\ io.rx.fd.off + io.rx.fd.len >= StreamFds(wire, NextFrame)

\* RECV_CLOSED is latched and the run has come to rest: no message is held, no
\* task is woken and no complete frame is left in the rx rings
ClosedAtRest ==
    /\ "RECV_CLOSED" \in io.interest
    /\ \A t \in Tasks : ~msgbuf[t].some
    /\ woken = {}
    /\ ~NextComplete

\* C22: after RECV_CLOSED is latched a recv future delivers the complete frames
\* still buffered for its object and then resolves to a broken-pipe error: once
\* the run has come to rest with no complete frame left, no recv future is
\* pending any more.
C22_ClosedRecvResolves ==
    ClosedAtRest => \A t \in Tasks : fut[t].kind # "recv"

\* the part of C22 that holds: a recv poll returns the broken-pipe error only
\* when no complete frame is left in the rx rings
C22_FramesBeforeError ==
    [][\A t \in Tasks : (fut[t].kind = "recv" /\ DoPoll(t) /\ PollResult(t).res = "err")
                            => ~NextComplete']_vars

-----------------------------------------------------------------------------
(* The interest mask *)

\* C23: the closed bits of the interest mask are terminal: once RECV_CLOSED
\* (SEND_CLOSED) is set no operation on Io clears it and RECV (SEND) is never set
\* again, and the driver performs no further recvmsg (sendmsg): the call that
\* returned 0 and latched the bit is the last one, and nothing is received
\* (sent) afterwards.
C23_ClosedIsTerminal ==
    [][/\ "RECV_CLOSED" \in io.interest =>
             /\ "RECV_CLOSED" \in io'.interest /\ "RECV" \notin io'.interest
             /\ sock'.zero_reads = sock.zero_reads
             /\ io'.rx.da.off + io'.rx.da.len = io.rx.da.off + io.rx.da.len
       /\ "SEND_CLOSED" \in io.interest =>
             /\ "SEND_CLOSED" \in io'.interest /\ "SEND" \notin io'.interest
             /\ sock'.zero_writes = sock.zero_writes
             /\ sock'.sent = sock.sent
       /\ "RECV_CLOSED" \in io'.interest => "RECV" \notin io'.interest
       /\ "SEND_CLOSED" \in io'.interest => "SEND" \notin io'.interest]_vars

\* both directions are closed, and afterwards a read that found too little
\* buffered and a write into the tx ring have run
C23_Witness ==
    /\ {"RECV_CLOSED", "SEND_CLOSED"} \subseteq io.interest
    /\ sock.zero_reads = 1 /\ sock.zero_writes = 1
    /\ io.rx.da.len > 0
    /\ Len(txlog) = MaxTxFrames
    /\ ~is_empty(io.tx)

-----------------------------------------------------------------------------
(* Properties of the wire codec *)

\* the value whose bytes the last read started at
ReadEntry == codec.log[codec.rd.i]

\* the kinds of the primitives and of the message header
Primitives == {"int", "uint", "fixed", "object", "opt_object", "new_id", "string",
               "opt_string", "array", "fd", "message_hdr"}

\* C24: round trip: reading a primitive or a message header from the bytes and
\* FDs that writing the value v produced yields v again and consumes exactly the
\* bytes and FDs the write produced.
C24_RoundTrip ==
    (/\ codec.rd.i > 0
     /\ ReadEntry.val.kind \in Primitives
     /\ codec.rd.kind = ReadEntry.val.kind)
    => /\ codec.rd.ok
       /\ codec.rd.val = ReadEntry.val
       /\ codec.rd.to = ReadEntry.to
       /\ codec.rd.fto = ReadEntry.fto

\* the 3-byte string h,i,NUL was written behind another value into a buffer that
\* held other bytes before, and has been read back as a string
C24_Witness ==
    /\ codec.rd.i = 2
    /\ codec.rd.kind = "string" /\ codec.rd.ok
    /\ ReadEntry.val.kind = "string"
    /\ ReadEntry.val.bytes = << 104, 105, 0 >>
    /\ ReadEntry.at > 0
    /\ codec.c.data[BufLen] = 170

\* the bytes of the buffer from offset a + 1 to offset b
BytesAt(a, b) == SubSeq(codec.c.data, a + 1, b)

\* C25: padding is zeroed: after a string or an array whose length is not a
\* multiple of 4 is written, each of the 1 to 3 bytes between the end of its
\* content and the next 4-byte boundary is zero, whatever the buffer held before
\* (h,i,NUL gives the 8 bytes 3,0,0,0,h,i,0,0).
C25_PaddingZeroed ==
    \A i \in 1..Len(codec.log) :
        LET e == codec.log[i]
            n == Len(e.val.bytes)
        IN e.val.kind \in {"array", "string", "opt_string"}
           => /\ BytesAt(e.at + 4 + n, e.at + 4 + align(n)) = Zeros(align(n) - n)
              /\ e.val.bytes = << 104, 105, 0 >>
                 => BytesAt(e.at, e.to) = << 3, 0, 0, 0, 104, 105, 0, 0 >>

\* C26: alignment: every successful write of a value advances the data cursor
\* by exactly the value's len(), which is a multiple of 4, so the offset of the
\* write cursor (the tail of the written data) is a multiple of 4 after any
\* sequence of writes into an empty buffer.
C26_WriteAdvancesByLen ==
    /\ \A i \in 1..Len(codec.log) :
          /\ codec.log[i].to - codec.log[i].at = Value_len(codec.log[i].val)
          /\ Value_len(codec.log[i].val) % 4 = 0
    /\ codec.c.pos % 4 = 0

\* C27: null handling: a zero word read as an optional object or as an optional
\* string gives none; read as an object, as a string or as a new_id it fails
\* with invalid_method; the optional object none is written as 0,0,0,0.
C27_NullHandling ==
    /\ (/\ codec.rd.i > 0
        /\ ReadEntry.to >= ReadEntry.at + 4
        /\ BytesAt(ReadEntry.at, ReadEntry.at + 4) = Zeros(4))
       => /\ codec.rd.kind \in {"opt_object", "opt_string"}
             => codec.rd.ok /\ ~codec.rd.val.some
          /\ codec.rd.kind \in {"object", "string", "new_id"}
             => ~codec.rd.ok /\ codec.rd.err = "invalid_method"
    /\ \A i \in 1..Len(codec.log) :
          (codec.log[i].val.kind = "opt_object" /\ ~codec.log[i].val.some)
          => BytesAt(codec.log[i].at, codec.log[i].to) = Zeros(4)

\* C28: header arithmetic: the second word of a written header is
\* datalen << 16 | opcode, and the payload length taken from a header that was
\* read satisfies content_len() + 8 = datalen over the integers; a header whose
\* datalen is below 8 gives no positive payload length.
C28_HeaderArithmetic ==
    /\ \A i \in 1..Len(codec.log) :
          LET e == codec.log[i]
              w == u32_from_bytes(BytesAt(e.at + 4, e.at + 8))
          IN e.val.kind = "message_hdr"
             => /\ (w \div 65536) % 65536 = e.val.datalen
                /\ w % 65536 = e.val.opcode
    /\ (codec.rd.i > 0 /\ codec.rd.kind = "message_hdr" /\ codec.rd.ok)
       => /\ content_len(codec.rd.val) + HDR_LEN = codec.rd.val.datalen
          /\ codec.rd.val.datalen < HDR_LEN => content_len(codec.rd.val) <= 0

\* C29: the new_id_dyn of new_object_dyn carries its interface name as a
\* Wayland string: the length word counts the terminating NUL and the content is
\* followed by that NUL, for every name length, exactly the bytes that
\* str_with_nul writes for the same name at the same place.
C29_DynNameNulTerminated ==
    \A i \in 1..Len(codec.log) :
        LET e == codec.log[i]
            n == Len(e.val.bytes)
            s == str_with_nul_write([codec.c EXCEPT !.pos = e.at], e.val.bytes)
        IN e.val.kind = "new_id_dyn"
           => /\ u32_from_bytes(BytesAt(e.at, e.at + 4)) = n + 1
              /\ codec.c.data[e.at + 4 + n + 1] = 0
              /\ s.ok
              /\ BytesAt(e.at, s.c.pos) = SubSeq(s.c.data, e.at + 1, s.c.pos)

-----------------------------------------------------------------------------
(* Properties of ChunkIter *)

\* the chunks from start.chunk to end.chunk, wrapping modulo LEN, each once, with
\* the bit range of each
ExpectedChunks(start, end, LEN) ==
    LET n == (end.chunk - start.chunk) % LEN
    IN [k \in 1..(n + 1) |->
           ChunkInfo((start.chunk + k - 1) % LEN,
                     IF k = 1 THEN start.index ELSE 0,
                     IF k = n + 1 THEN end.index ELSE 63)]

\* C30: for every start, end and LEN the iterator yields each chunk from
\* start.chunk to end.chunk (wrapping modulo LEN) exactly once and in order, with
\* the bits [start.index, 63] of the first chunk, [0, 63] of every chunk in
\* between and [0, end.index] of the last ([start.index, end.index] when start
\* and end are in the same chunk).
C30_ChunksOnceInOrder ==
    chunk_iter.state = "done"
    => chunk_iter.out = ExpectedChunks(chunk_iter.start, chunk_iter.end, chunk_iter.LEN)

-----------------------------------------------------------------------------
(* Properties of free_slots *)

\* the bits << chunk, index >> of the range start..=end of a Phasesync<LEN>
RangeBits(start, end, LEN) ==
    LET E == ExpectedChunks(start, end, LEN)
    IN UNION {{<< E[k].chunk, b >> : b \in bitmask_range(E[k].lower, E[k].upper)} :
                 k \in 1..Len(E)}

\* the 1 bits of the chunks
SetBits(chunks) == {<< c - 1, b >> : c \in 1..Len(chunks), b \in 0..63} \cap
                   UNION {{<< c - 1, b >> : b \in chunks[c]} : c \in 1..Len(chunks)}

\* the first of the bits `set` in the range start..=end: [some, slot, dead], dead
\* being the bits of the range before it in its chunk
FirstSet(set, start, end, LEN) ==
    LET E == ExpectedChunks(start, end, LEN)
        In(k) == {b \in bitmask_range(E[k].lower, E[k].upper) : << E[k].chunk, b >> \in set}
        K == {k \in 1..Len(E) : In(k) # {}}
        k0 == CHOOSE k \in K : \A j \in K : k <= j
        b0 == CHOOSE b \in In(k0) : \A d \in In(k0) : b <= d
    IN IF K = {} THEN [some |-> FALSE, slot |-> p(0, 0), dead |-> {}]
       ELSE [some |-> TRUE, slot |-> p(E[k0].chunk, b0),
             dead |-> {<< E[k0].chunk, b >> : b \in E[k0].lower..(b0 - 1)}]

\* thread t has returned from free_slots and no other thread has called it
ReturnedAlone(t) ==
    /\ phasesync.th[t].pc = "done"
    /\ \A u \in Tasks \ {t} : phasesync.th[u].pc = "idle"

\* C31: free_slots returns Successful exactly when every bit of `slots` was set,
\* and then those bits are cleared; otherwise the bits of `slots` are set again
\* and it returns Selected { slot } for the first set bit of the range from one
\* past the end of `slots` up to `until` (that bit is cleared, the dead bits before
\* it are set again, commit was called with it), or AllSlotsDead when that range
\* has no set bit.
C31_FreeSlotsResult ==
    \A t \in Tasks :
        ReturnedAlone(t) =>
        LET c == phasesync.th[t]
            LEN == phasesync.LEN
            S == RangeBits(c.slots.start, c.slots.end, LEN)
            was == SetBits(c.pre)
            now == SetBits(phasesync.chunks)
            f == FirstSet(was \cup S, Pos_wrapping_add(c.slots.end, 1, LEN), c.until, LEN)
        IN IF S \subseteq was
           THEN c.ret.kind = "Successful" /\ now = was \ S
           ELSE IF f.some
           THEN /\ c.ret = [kind |-> "Selected", slot |-> f.slot]
                /\ now = ((was \cup S) \ {<< f.slot.chunk, f.slot.index >>}) \cup f.dead
                /\ \E i \in 1..Len(c.commits) : c.commits[i] = f.slot
           ELSE c.ret.kind = "AllSlotsDead" /\ now = was \cup S

\* C32: lowest_one(val) is None for 0 and otherwise the index of the
\* least-significant 1 bit of val.
C32_LowestOne ==
    \A t \in Tasks :
        LET c == phasesync.th[t]
        IN /\ c.pc \in {"dead_cas", "select_cas"}
              => c.bits # {} /\ c.index \in c.bits /\ \A b \in c.bits : c.index <= b
           /\ (c.pc = "search" /\ c.it.state # "Start") => c.bits = {}

\* commit was called at most once with each slot
CommitOnce(c) ==
    \A i, j \in 1..Len(c.commits) : c.commits[i] = c.commits[j] => i = j

\* C38: free_slots terminates for every input and under every interleaving with
\* other free_slots calls: a thread that has called it returns, and commit is
\* called at most once per candidate slot.
C38_FreeSlotsTerminates ==
    /\ [](\A t \in Tasks : CommitOnce(phasesync.th[t]))
    /\ \A t \in Tasks : (phasesync.th[t].pc # "idle") ~> (phasesync.th[t].pc = "done")

------------------------------------------------------------------------------
(* Properties of the travel_logs Buffer *)

\* the positions of a Range that might wrap
RingSet(r, capacity) ==
    IF r.from <= r.upto THEN r.from .. (r.upto - 1)
    ELSE (r.from .. (capacity - 1)) \cup (0 .. (r.upto - 1))

\* the oldest of the live handles
OldestLive == CHOOSE h \in travel_logs.live : \A g \in travel_logs.live : h.n <= g.n

\* no thread is inside a call on the Buffer
BufferQuiet == \A t \in Tasks : travel_logs.th[t].pc = "idle"

\* C33: the live handles have pairwise disjoint slot and data ranges, the range
\* of every live handle lies between the free and the next pointers, and when
\* no call is running the free pointers stand at the start of the oldest live
\* handle, or at the next pointers when no handle is live
C33_BufferHandles ==
    LET b == travel_logs
        a == allocated_range(b)
    IN b.cap > 0 =>
       /\ \A h, g \in b.live :
              h # g => /\ RingSet(h.range.slot, MAX_SLOTS)
                              \cap RingSet(g.range.slot, MAX_SLOTS) = {}
                       /\ RingSet(h.range.data, b.cap)
                              \cap RingSet(g.range.data, b.cap) = {}
       /\ \A h \in b.live :
              /\ RingSet(h.range.slot, MAX_SLOTS) \subseteq RingSet(a.slot, MAX_SLOTS)
              /\ RingSet(h.range.data, b.cap) \subseteq RingSet(a.data, b.cap)
       /\ BufferQuiet /\ b.live # {} =>
              /\ b.slot_free = OldestLive.range.slot.from
              /\ b.data_free = OldestLive.range.data.from
       /\ BufferQuiet /\ b.live = {} =>
              /\ b.slot_free = b.slot_next
              /\ b.data_free = b.data_next

------------------------------------------------------------------------------
(* Properties of the Registry wakers *)

\* the objects with a receiver_map entry whose waker is not the one of task t
OtherReceivers(r, t) == {o \in Objs : r.receiver_map[o] # 0 /\ r.receiver_map[o] # t}

\* the first of them in the order of the map
FirstOtherReceiver(r, t) ==
    CHOOSE o \in OtherReceivers(r, t) : \A q \in OtherReceivers(r, t) : o <= q

\* C34: a recv poll that returns a message wakes the first receiver of the
\* receiver map other than the one that received, whenever there is one that
\* still awaits its recv future
C34_RecvWakesOtherReceiver ==
    [][Len(delivered') > Len(delivered) =>
          LET t == delivered'[Len(delivered')].task
          IN OtherReceivers(reg', t) # {} =>
                LET u == reg'.receiver_map[FirstOtherReceiver(reg', t)]
                IN fut[u].kind = "recv" => u \in woken']_vars

\* the body of the frame of the cached header is buffered whole
BodyBuffered ==
    /\ io.rx_hdr.some
    /\ io.rx.da.len >= content_len(io.rx_hdr)
    /\ io.rx.fd.len >= fd_count(io.rx_hdr.object_id, io.rx_hdr.opcode)

\* the step appends to `delivered` the frame of the cached header, returned to
\* a recv future of the object it addresses
DeliversCached ==
    /\ Len(delivered') = Len(delivered) + 1
    /\ delivered'[Len(delivered')].hdr = io.rx_hdr
    /\ delivered'[Len(delivered')].obj = io.rx_hdr.object_id

\* C35: the rx heads stand at the next undelivered frame, behind its header
\* when that is cached (no frame is dropped or skipped, whether or not its ID
\* has a registry entry); a cached rx header changes only in a step that returns its frame to a
\* recv future of the addressed object, and is cleared then; as long as it
\* stays cached (polls of other objects, of objects that find no registry entry
\* for its ID, locked polls, dropped futures) nothing of its frame is taken from
\* the rx ring and nothing else is delivered; and a poll of the recv future of
\* the addressed object that finds the body buffered returns the frame
C35_CachedHeaderKept ==
    /\ [](/\ io.rx.da.off = FrameStart(wire, NextFrame)
                               + (IF io.rx_hdr.some THEN HDR_LEN ELSE 0)
          /\ io.rx.fd.off = FrameFdStart(wire, NextFrame)
          /\ io.rx_hdr.some => NextFrame <= Len(wire) /\ io.rx_hdr = WireHdr(NextFrame))
    /\ [][io.rx_hdr.some /\ io.rx_hdr' # io.rx_hdr =>
              DeliversCached /\ io.rx_hdr' = NoHdr]_vars
    /\ [][io.rx_hdr.some /\ io.rx_hdr' = io.rx_hdr =>
              /\ delivered' = delivered
              /\ io.rx.da.off' = io.rx.da.off
              /\ io.rx.fd.off' = io.rx.fd.off]_vars
    /\ [][\A t \in Tasks :
              (/\ BodyBuffered /\ ioLock = 0
               /\ fut[t].kind = "recv" /\ fut[t].obj = io.rx_hdr.object_id
               /\ DoPoll(t)) =>
              DeliversCached /\ delivered'[Len(delivered')].task = t]_vars

\* a header is cached for an ID without a registry entry, its body is buffered,
\* the future whose poll parsed it has been dropped (its entry is still in the
\* receiver map) and no recv future is left; an earlier frame was delivered
C35_Witness ==
    /\ BodyBuffered
    /\ reg.receiver_map[io.rx_hdr.object_id] = 0
    /\ \E o \in Objs : reg.receiver_map[o] # 0
    /\ \A t \in Tasks : fut[t].kind = "none"
    /\ Len(delivered) >= 1

\* the number of wakers of task u parked in the registry r
Parked(r, u) ==
    (IF r.sender_locked = u THEN 1 ELSE 0)
        + Cardinality({j \in 1..Len(r.sender_queue) : r.sender_queue[j] = u})

ParkedForRoom(t) ==
    /\ fut[t].kind = "send" /\ ~fut[t].did_send
    /\ \E j \in 1..Len(reg.sender_queue) : reg.sender_queue[j] = t
    /\ "SEND_CLOSED" \notin io.interest

\* nothing is left that could still call the waker of task t: no task is woken,
\* no stored readiness future waits for the socket, and no other task awaits a
\* future
NoWakeLeft(t) ==
    /\ woken = {}
    /\ \A u \in Tasks : fut[u].iofut = "none"
    /\ \A u \in Tasks \ {t} : fut[u].kind = "none"

\* C37: a send future parked in sender_queue is woken after the I/O driver has
\* made room, without another send future being started: a step in which the
\* driver sends the rest of what the tx ring held while the sender is parked
\* leaves the sender woken, or something that can still wake it
C37_ParkedSenderWoken ==
    [][\A t \in Tasks :
          (/\ ParkedForRoom(t) /\ ~is_empty(io.tx)
           /\ ParkedForRoom(t)' /\ is_empty(io.tx)') => ~NoWakeLeft(t)']_vars

------------------------------------------------------------------------------
(* Properties of the compositor's queues *)

\* the threads that hold the lock of write_next: a writer between its
\* compare-exchange and its store, or a cleaner that resets the queue
MqHolders ==
    {t \in Tasks : message_queue.th[t].pc \in {"data", "fds", "store", "reset"}}

\* C39: write_next is an index below capacity, capacity or PROCESSING, and it is
\* PROCESSING exactly while one thread is inside allocate_message behind its
\* compare-exchange or resets the queue in deallocate: no call returns and
\* leaves PROCESSING behind
C39_WriteNextUnlocked ==
    message_queue.capacity > 0 =>
       /\ message_queue.write_next \in (0 .. message_queue.capacity) \cup {PROCESSING}
       /\ message_queue.write_next = PROCESSING <=> Cardinality(MqHolders) = 1
       /\ Cardinality(MqHolders) <= 1

\* the elements of a handle's range
SubRange(h) == h.index .. (h.index + h.len - 1)

\* C40: the ranges of the handles Subqueue::allocate has returned and that are
\* still in use lie inside the buffer and do not overlap, and every call of
\* allocate returns (the wrap-around path included)
C40_SubqueueAllocate ==
    /\ [](\A j \in 1..Len(subqueue.live) :
              /\ subqueue.live[j].index + subqueue.live[j].len <= subqueue.capacity
              /\ \A k \in 1..Len(subqueue.live) :
                    j # k => SubRange(subqueue.live[j]) \cap SubRange(subqueue.live[k]) = {})
    /\ \A t \in Tasks : (subqueue.th[t].pc # "idle") ~> (subqueue.th[t].pc = "idle")

=============================================================================
